---- MODULE Spec2Model ----
(***************************************************************************)
(* A model of the text-editing engine of the terminal editor in            *)
(* src/src/main.rs: the rope buffer with its byte/char/line conversions,   *)
(* the word-wrap layout (wrap_line, rebuild_visual_lines), the             *)
(* time-coalesced undo/redo manager (push_op, undo, redo), indent/dedent,  *)
(* and the find/replace engine (update_find_matches, replace_all).         *)
(*                                                                         *)
(* Text is a sequence of characters; a character is a one-character        *)
(* string.  "W" stands for a CJK ideograph (3 bytes in UTF-8, 2 display    *)
(* columns); every other character is one byte and one column, except the  *)
(* newline, which has no display width.  All offsets kept by the editor    *)
(* (caret, anchor, EditOp positions, VisualLine ranges, matches) are byte  *)
(* offsets, as in the source.                                              *)
(*                                                                         *)
(* Option<T> is a sequence: None is <<>> and Some(x) is <<x>>.             *)
(***************************************************************************)
EXTENDS Integers, Sequences, FiniteSets, TLC

VARIABLES
    rope,                 \* Editor.rope: the buffer, a sequence of characters
    caret,                \* Editor.caret: byte offset
    selection_anchor,     \* Editor.selection_anchor: Option<byte offset>
    undo_stack,           \* Editor.undo_stack: sequence of groups
    redo_stack,           \* Editor.redo_stack
    current_group,        \* Editor.current_group: Option<group>
    last_edit_time,       \* Editor.last_edit_time, seen from the present:
                          \*   "None", "Recent" (at most 1 s ago), "Old" (more)
    modified,             \* Editor.modified
    preferred_col,        \* Editor.preferred_col
    word_wrap,            \* Editor.word_wrap
    viewport_width,       \* the terminal width handed to every command
    visual_lines,         \* Editor.visual_lines: sequence of Option<VisualLine>
    visual_lines_valid,   \* Editor.visual_lines_valid
    find_matches,         \* Editor.find_matches: sequence of <<start, end>>
    current_match_index,  \* Editor.current_match_index: Option<index>, 0-based
    app_state,            \* Editor.app_state: Editing, Prompting(prompt) or Exiting
    filename,             \* Editor.filename: Option<path>
    panicked,             \* the process was aborted by a Rust panic
    pc,                   \* position of the running command: "idle" or inside replace_all
    ra,                   \* replace_all's arguments query and replacement
    h                     \* history kept for the properties (no effect on the editor)

vars == << rope, caret, selection_anchor, undo_stack, redo_stack, current_group,
           last_edit_time, modified, preferred_col, word_wrap, viewport_width, visual_lines,
           visual_lines_valid, find_matches, current_match_index, app_state,
           filename, panicked, pc, ra, h >>

None == << >>
Some(x) == << x >>

\* the prompt field of an AppState that holds no prompt
NoPrompt ==
    [prompt_type |-> "None", input |-> << >>, cursor_pos |-> 0, replace_input |-> << >>,
     replace_cursor_pos |-> 0, active_field |-> "Find"]

\* enum AppState
Editing == [state |-> "Editing", prompt |-> NoPrompt]
Prompting(prompt) == [state |-> "Prompting", prompt |-> prompt]
Exiting == [state |-> "Exiting", prompt |-> NoPrompt]

Min(a, b) == IF a <= b THEN a ELSE b
Max(a, b) == IF a >= b THEN a ELSE b
\* usize::saturating_sub
SaturatingSub(a, b) == IF a >= b THEN a - b ELSE 0

(***************************************************************************)
(* Characters.                                                             *)
(***************************************************************************)
\* char::len_utf8
Utf8Len(ch) == IF ch = "W" THEN 3 ELSE 1
\* UnicodeWidthStr::width of a one-character string
CharWidth(ch) == IF ch = "W" THEN 2 ELSE IF ch = "\n" THEN 0 ELSE 1
\* char::is_whitespace, as used by str::trim_start
IsWhitespace(ch) == ch \in {" ", "\n"}
\* char::is_alphanumeric
IsAlphanumeric(ch) == ch \in {"a", "b", "W"}

RECURSIVE ByteLen(_)
\* str::len / Rope::len_bytes: the length in bytes
ByteLen(s) == IF s = << >> THEN 0 ELSE Utf8Len(Head(s)) + ByteLen(Tail(s))

RECURSIVE StrWidth(_)
\* UnicodeWidthStr::width of a string
StrWidth(s) == IF s = << >> THEN 0 ELSE CharWidth(Head(s)) + StrWidth(Tail(s))

\* Rope::char_to_byte
CharToByte(s, c) == ByteLen(SubSeq(s, 1, c))

\* Rope::byte_to_char: the index of the char the byte belongs to
ByteToChar(s, b) ==
    CHOOSE c \in 0..Len(s) :
        /\ CharToByte(s, c) <= b
        /\ (c = Len(s) \/ CharToByte(s, c + 1) > b)

\* Rope::byte_to_char panics when the byte offset lies beyond the end
OutOfBounds(s, b) == b > ByteLen(s)

\* is byte offset b a char boundary of s
IsBoundary(s, b) == \E c \in 0..Len(s) : CharToByte(s, c) = b

\* Rope::byte_slice(b1..b2) on char boundaries
ByteSlice(s, b1, b2) == SubSeq(s, ByteToChar(s, b1) + 1, ByteToChar(s, b2))

\* Rope::insert(char_idx, text)
RopeInsert(s, c, text) == SubSeq(s, 1, c) \o text \o SubSeq(s, c + 1, Len(s))

\* Rope::remove(c1..c2), chars c1 .. c2-1
RopeRemove(s, c1, c2) == SubSeq(s, 1, c1) \o SubSeq(s, c2 + 1, Len(s))

\* Rope::len_lines: the number of line breaks plus one
LenLines(s) == Cardinality({i \in 1..Len(s) : s[i] = "\n"}) + 1

\* Rope::char_to_line: the line of char index c
CharToLine(s, c) == Cardinality({i \in 1..Min(c, Len(s)) : s[i] = "\n"})

\* Rope::line_to_char: the char index at which line l starts
LineToChar(s, l) ==
    IF l = 0 THEN 0
    ELSE CHOOSE c \in 1..Len(s) :
            /\ s[c] = "\n"
            /\ Cardinality({i \in 1..c : s[i] = "\n"}) = l

\* Rope::line(l): the text of line l, with its line break if it has one
RopeLine(s, l) ==
    LET from == LineToChar(s, l)
        to   == IF l + 1 < LenLines(s) THEN LineToChar(s, l + 1) ELSE Len(s)
    IN SubSeq(s, from + 1, to)

(***************************************************************************)
(* Layout: calculate_indent, wrap_line, rebuild_visual_lines.              *)
(***************************************************************************)
\* Editor.virtual_lines
virtual_lines == 2

RECURSIVE TrimStart(_)
\* str::trim_start
TrimStart(s) ==
    IF s /= << >> /\ IsWhitespace(Head(s)) THEN TrimStart(Tail(s)) ELSE s

\* str::starts_with
StartsWith(s, p) == Len(s) >= Len(p) /\ SubSeq(s, 1, Len(p)) = p

RECURSIVE MarkerScan(_, _)
\* the loop of calculate_indent over the trimmed line: TRUE when an
\* alphanumeric run is followed by '.' or ')' and then a space
MarkerScan(t, num_count) ==
    IF t = << >> THEN FALSE
    ELSE IF IsAlphanumeric(Head(t)) THEN MarkerScan(Tail(t), num_count + 1)
    ELSE IF num_count > 0 /\ Head(t) \in {".", ")"}
         THEN Len(t) >= 2 /\ t[2] = " "
    ELSE FALSE

\* Editor::calculate_indent; the line is passed with its newline
\* whether the trimmed line starts with a list marker
HasMarker(trimmed) ==
    \/ StartsWith(trimmed, <<"-", " ">>)
    \/ StartsWith(trimmed, <<"*", " ">>)
    \/ StartsWith(trimmed, <<"+", " ">>)
    \/ MarkerScan(trimmed, 0)

\* Editor::calculate_indent; the line is passed with its newline
calculate_indent(line) ==
    (ByteLen(line) - ByteLen(TrimStart(line)))
    + (IF HasMarker(TrimStart(line)) THEN 4 ELSE 0)

RECURSIVE ScanSegment(_, _, _, _, _, _)
\* the inner for loop of wrap_line, on char indices: i chars of content are
\* consumed, width is the display width of content[start+1..i], last_break the
\* index after the last space, hyphen or slash.  The result is `end`.
ScanSegment(content, start, available_width, i, width, last_break) ==
    IF i >= Len(content) THEN i
    ELSE LET ch       == content[i + 1]
             ch_width == CharWidth(ch)
         IN  IF width + ch_width > available_width /\ i - start > 0
             THEN (IF last_break > start THEN last_break ELSE i)
             ELSE ScanSegment(content, start, available_width, i + 1,
                              width + ch_width,
                              IF ch \in {" ", "-", "/"} THEN i + 1 ELSE last_break)

RECURSIVE SkipSpaces(_, _)
\* the trailing while loop of wrap_line: skip the spaces that follow a segment
SkipSpaces(content, start) ==
    IF start < Len(content) /\ content[start + 1] = " "
    THEN SkipSpaces(content, start + 1)
    ELSE start

\* the first segment's width taken for every segment
AvailableWidthOfFirst(width, continuation_indent, is_first) == width

\* available_width of wrap_line's outer loop
AvailableWidth(width, continuation_indent, is_first) ==
    IF is_first THEN width ELSE SaturatingSub(width, continuation_indent)

RECURSIVE WrapFrom(_, _, _, _, _)
\* the outer while loop of wrap_line, on char indices; `next` is the start of
\* the following segment
SegmentsFrom(content, width, continuation_indent, start, end) ==
    << <<start, end>> >> \o
    WrapFrom(content, width, continuation_indent, SkipSpaces(content, end), FALSE)

\* the outer loop were a first character wider than the available width to
\* end its segment before it
WrapFromEndingBeforeWide(content, width, continuation_indent, start, is_first) ==
    IF start >= Len(content) THEN << >>
    ELSE IF AvailableWidth(width, continuation_indent, is_first) = 0 THEN << >>
    ELSE IF CharWidth(content[start + 1])
                > AvailableWidth(width, continuation_indent, is_first)
    THEN << <<start, start>> >> \o
         WrapFrom(content, width, continuation_indent, start + 1, FALSE)
    ELSE SegmentsFrom(content, width, continuation_indent, start,
                      ScanSegment(content, start,
                                  AvailableWidth(width, continuation_indent, is_first),
                                  start, 0, start))

WrapFrom(content, width, continuation_indent, start, is_first) ==
    IF start >= Len(content) THEN << >>
    ELSE IF AvailableWidth(width, continuation_indent, is_first) = 0 THEN << >>
    ELSE SegmentsFrom(content, width, continuation_indent, start,
                      ScanSegment(content, start,
                                  AvailableWidth(width, continuation_indent, is_first),
                                  start, 0, start))

\* the end of wrap_line: the segments as byte offsets into content, and the
\* whole content as one segment when the loop pushed none
Segments(content, segs) ==
    IF segs = << >> THEN << <<0, ByteLen(content)>> >>
    ELSE [k \in 1..Len(segs) |->
             << CharToByte(content, segs[k][1]), CharToByte(content, segs[k][2]) >>]

\* Editor::wrap_line: the segments <<start, end>> as byte offsets into content
wrap_line(content, width, continuation_indent) ==
    Segments(content, WrapFrom(content, width, continuation_indent, 0, TRUE))

\* struct VisualLine
VisualLine(start_byte, end_byte, is_continuation, indent, logical_line) ==
    [start_byte |-> start_byte, end_byte |-> end_byte,
     is_continuation |-> is_continuation, indent |-> indent,
     logical_line |-> logical_line]

\* SegmentLines were every continuation row indented by its index
SegmentLinesSteppedIndent(segments, indent, line_idx, byte_pos) ==
    [i \in 1..Len(segments) |->
        Some(VisualLine(byte_pos + segments[i][1], byte_pos + segments[i][2],
                        i > 1, IF i > 1 THEN indent + i ELSE 0, line_idx))]

\* the VisualLines rebuild_visual_lines pushes for the segments of a wrapped line
SegmentLines(segments, indent, line_idx, byte_pos) ==
    [i \in 1..Len(segments) |->
        Some(VisualLine(byte_pos + segments[i][1], byte_pos + segments[i][2],
                        i > 1, IF i > 1 THEN indent ELSE 0, line_idx))]

\* the line break never seen
NeverNewline(line) == FALSE

\* line_str.ends_with('\n')
HasNewline(line) == line /= << >> /\ line[Len(line)] = "\n"

\* the line without its newline
Content(line) == IF HasNewline(line) THEN SubSeq(line, 1, Len(line) - 1) ELSE line

\* the word-wrap branch of rebuild_visual_lines for one logical line
WrappedLine(line, content, indent, line_idx, byte_pos, width) ==
    IF content = << >>
    THEN << Some(VisualLine(byte_pos, byte_pos, FALSE, 0, line_idx)) >>
    ELSE SegmentLines(wrap_line(content, width, indent), indent, line_idx, byte_pos)

\* the VisualLines rebuild_visual_lines pushes for one logical line
LineVisualLines(line, line_idx, byte_pos, width, wrap) ==
    IF ~wrap
    THEN << Some(VisualLine(byte_pos,
                    byte_pos + SaturatingSub(ByteLen(line),
                                             IF HasNewline(line) THEN 1 ELSE 0),
                    FALSE, 0, line_idx)) >>
    ELSE WrappedLine(line, Content(line), calculate_indent(line), line_idx,
                     byte_pos, width)

RECURSIVE RebuildFrom(_, _, _, _, _)
\* the loop of rebuild_visual_lines over the logical lines
RebuildFrom(s, width, wrap, line_idx, byte_pos) ==
    IF line_idx >= LenLines(s) THEN << >>
    ELSE LineVisualLines(RopeLine(s, line_idx), line_idx, byte_pos, width, wrap) \o
         RebuildFrom(s, width, wrap, line_idx + 1,
                     byte_pos + ByteLen(RopeLine(s, line_idx)))

\* rebuild_visual_lines were it to close with a single empty row
RebuildOneRowBelow(s, width, wrap) ==
    [i \in 1..virtual_lines |-> None] \o
    RebuildFrom(s, width, wrap, 0, 0) \o
    << None >>

\* Editor::rebuild_visual_lines: the new value of visual_lines
rebuild_visual_lines(s, width, wrap) ==
    [i \in 1..virtual_lines |-> None] \o
    RebuildFrom(s, width, wrap, 0, 0) \o
    [i \in 1..virtual_lines |-> None]

(***************************************************************************)
(* The Editor as a record, so that a command's steps compose.  `rec` lists *)
(* the entries the running command handed to push_op.                      *)
(***************************************************************************)
Cur ==
    [rope |-> rope, caret |-> caret, selection_anchor |-> selection_anchor,
     undo_stack |-> undo_stack, redo_stack |-> redo_stack,
     current_group |-> current_group, last_edit_time |-> last_edit_time,
     modified |-> modified, preferred_col |-> preferred_col,
     word_wrap |-> word_wrap, visual_lines |-> visual_lines,
     visual_lines_valid |-> visual_lines_valid,
     find_matches |-> find_matches, current_match_index |-> current_match_index,
     app_state |-> app_state, filename |-> filename, panicked |-> panicked,
     rec |-> << >>]

Set(e) ==
    /\ rope' = e.rope
    /\ caret' = e.caret
    /\ selection_anchor' = e.selection_anchor
    /\ undo_stack' = e.undo_stack
    /\ redo_stack' = e.redo_stack
    /\ current_group' = e.current_group
    /\ last_edit_time' = e.last_edit_time
    /\ modified' = e.modified
    /\ preferred_col' = e.preferred_col
    /\ word_wrap' = e.word_wrap
    /\ visual_lines' = e.visual_lines
    /\ visual_lines_valid' = e.visual_lines_valid
    /\ find_matches' = e.find_matches
    /\ current_match_index' = e.current_match_index
    /\ app_state' = e.app_state
    /\ filename' = e.filename
    /\ panicked' = e.panicked

\* a Rust panic: the process stops where it is
Panic(e) == [e EXCEPT !.panicked = TRUE]

\* invalidate_visual_lines leaving the flag as it is
KeepVisualLines(e) == e

\* Editor::invalidate_visual_lines
invalidate_visual_lines(e) == [e EXCEPT !.visual_lines_valid = FALSE]

\* Editor::ensure_visual_lines
ensure_visual_lines(e, width) ==
    IF ~e.visual_lines_valid \/ e.visual_lines = << >>
    THEN [e EXCEPT !.visual_lines = rebuild_visual_lines(e.rope, width, e.word_wrap),
                   !.visual_lines_valid = TRUE]
    ELSE e

RECURSIVE LastContentRow(_, _)
\* the last row holding a VisualLine, 0-based, or -1 (the rev().find of
\* get_visual_position)
LastContentRow(vls, n) ==
    IF n = 0 THEN -1
    ELSE IF vls[n] /= None THEN n - 1
    ELSE LastContentRow(vls, n - 1)

RECURSIVE ScanRowsEndOfRow(_, _, _, _)
\* the row loop without its first test: a position at the end of a row stays
\* on that row
ScanRowsEndOfRow(vls, s, byte_pos, row) ==
    IF row >= Len(vls)
    THEN [panic |-> FALSE,
          row |-> IF LastContentRow(vls, Len(vls)) >= 0
                  THEN LastContentRow(vls, Len(vls)) ELSE virtual_lines,
          col |-> 0]
    ELSE IF vls[row + 1] = None THEN ScanRowsEndOfRow(vls, s, byte_pos, row + 1)
    ELSE IF byte_pos >= vls[row + 1][1].start_byte
            /\ byte_pos <= vls[row + 1][1].end_byte
    THEN IF \/ byte_pos > ByteLen(s)
            \/ ~IsBoundary(s, vls[row + 1][1].start_byte)
            \/ ~IsBoundary(s, byte_pos)
         THEN [panic |-> TRUE, row |-> row, col |-> 0]
         ELSE [panic |-> FALSE, row |-> row,
               col |-> vls[row + 1][1].indent +
                       StrWidth(ByteSlice(s, vls[row + 1][1].start_byte, byte_pos))]
    ELSE ScanRowsEndOfRow(vls, s, byte_pos, row + 1)

RECURSIVE ScanRows(_, _, _, _)
\* the row loop of get_visual_position over visual lines vls of buffer s;
\* rows are 0-based; the result is [panic, row, col]
ScanRows(vls, s, byte_pos, row) ==
    IF row >= Len(vls)
    THEN LET last == LastContentRow(vls, Len(vls))
         IN  [panic |-> FALSE,
              row |-> IF last >= 0 THEN last ELSE virtual_lines, col |-> 0]
    ELSE IF vls[row + 1] = None THEN ScanRows(vls, s, byte_pos, row + 1)
    ELSE LET vl == vls[row + 1][1]
         IN  IF /\ byte_pos = vl.end_byte
                /\ row + 1 < Len(vls)
                /\ vls[row + 2] /= None
                /\ vls[row + 2][1].is_continuation
                /\ vls[row + 2][1].start_byte = vl.end_byte
             THEN [panic |-> FALSE, row |-> row + 1, col |-> vls[row + 2][1].indent]
             ELSE IF byte_pos >= vl.start_byte /\ byte_pos <= vl.end_byte
             THEN IF \/ byte_pos > ByteLen(s)
                     \/ ~IsBoundary(s, vl.start_byte)
                     \/ ~IsBoundary(s, byte_pos)
                  THEN [panic |-> TRUE, row |-> row, col |-> 0]
                  ELSE [panic |-> FALSE, row |-> row,
                        col |-> vl.indent +
                                StrWidth(ByteSlice(s, vl.start_byte, byte_pos))]
             ELSE ScanRows(vls, s, byte_pos, row + 1)

\* Editor::get_visual_position on an editor whose visual lines are ensured
get_visual_position(e, byte_pos) == ScanRows(e.visual_lines, e.rope, byte_pos, 0)

\* the recurring tail of the edit and move commands:
\*   let (_, col) = self.get_visual_position(self.caret, w); self.preferred_col = col;
WithCol(e, vp) ==
    IF vp.panic THEN Panic(e) ELSE [e EXCEPT !.preferred_col = vp.col]

CaretPosition(e) == WithCol(e, get_visual_position(e, e.caret))

SetPreferredCol(e, width) ==
    IF e.panicked THEN e ELSE CaretPosition(ensure_visual_lines(e, width))

\* Editor::update_viewport, without the scroll offsets (rendering)
CaretVisible(e) ==
    IF get_visual_position(e, e.caret).panic THEN Panic(e) ELSE e

update_viewport(e, width) ==
    IF e.panicked THEN e ELSE CaretVisible(ensure_visual_lines(e, width))

(***************************************************************************)
(* Selection and the undo manager.                                         *)
(***************************************************************************)
\* enum EditOp
Insert(pos, text) == [kind |-> "Insert", pos |-> pos, text |-> text]
Delete(pos, text) == [kind |-> "Delete", pos |-> pos, text |-> text]

\* one element of UndoGroup.ops: (EditOp, caret_before, caret_after).  A group
\* is the sequence of its ops; UndoGroup.timestamp is written and never read.
Entry(op, caret_before, caret_after) ==
    [op |-> op, before |-> caret_before, after |-> caret_after]

\* Editor::has_selection
has_selection(e) == e.selection_anchor /= None

\* Editor::get_selection_range: Option<(start, end)>
get_selection_range(e) ==
    IF e.selection_anchor = None THEN None
    ELSE LET anchor == e.selection_anchor[1]
         IN  IF anchor <= e.caret THEN Some(<<anchor, e.caret>>)
             ELSE Some(<<e.caret, anchor>>)

\* Editor::clear_selection
clear_selection(e) == [e EXCEPT !.selection_anchor = None]

\* the if / else if of push_op: where the entry goes.
\* now - last_edit_time > 1 s is last_edit_time = "Old".
PushEntry(e, entry) ==
    IF e.last_edit_time /= "Recent"
    THEN [e EXCEPT !.undo_stack = IF e.current_group /= None
                                  THEN Append(@, e.current_group[1])
                                  ELSE @,
                   !.current_group = Some(<< entry >>)]
    ELSE IF e.current_group /= None
    THEN [e EXCEPT !.current_group = Some(Append(@[1], entry))]
    ELSE e

\* push_op were it to leave the redo stack alone
push_op_keeping_redo(e, op, caret_before, caret_after) ==
    [PushEntry(e, Entry(op, caret_before, caret_after))
        EXCEPT !.last_edit_time = "Recent",
               !.modified = TRUE,
               !.rec = Append(@, Entry(op, caret_before, caret_after))]

\* Editor::push_op
push_op(e, op, caret_before, caret_after) ==
    [PushEntry(e, Entry(op, caret_before, caret_after))
        EXCEPT !.redo_stack = << >>,
               !.last_edit_time = "Recent",
               !.modified = TRUE,
               !.rec = Append(@, Entry(op, caret_before, caret_after))]

\* Rope::byte_slice(start..end) panics beyond the end and off a char boundary
SlicePanics(s, start, end) ==
    ~IsBoundary(s, start) \/ ~IsBoundary(s, end) \/ OutOfBounds(s, end)

\* the body of delete_selection for the range start..end, start < end
DeleteRange(e, start, end) ==
    IF SlicePanics(e.rope, start, end)
    THEN Panic(e)
    ELSE clear_selection(invalidate_visual_lines(
             push_op([e EXCEPT !.rope = RopeRemove(@, ByteToChar(e.rope, start),
                                                      ByteToChar(e.rope, end)),
                               !.caret = start],
                     Delete(start, ByteSlice(e.rope, start, end)),
                     e.caret, start)))

\* the result of delete_selection: whether it deleted
HasRange(e) == e.selection_anchor /= None /\ e.selection_anchor[1] /= e.caret

\* Editor::delete_selection: the editor after it
delete_selection(e) ==
    IF HasRange(e)
    THEN DeleteRange(e, get_selection_range(e)[1][1], get_selection_range(e)[1][2])
    ELSE e

\* finalize_undo_group were it to drop the open group
FinalizeDroppingGroup(e) == [e EXCEPT !.current_group = None]

\* Editor::finalize_undo_group
finalize_undo_group(e) ==
    IF e.current_group /= None
    THEN [e EXCEPT !.undo_stack = IF e.current_group[1] /= << >>
                                  THEN Append(@, e.current_group[1]) ELSE @,
                   !.current_group = None]
    ELSE e

\* the removal shared by undo of an Insert and redo of a Delete
RemoveSpan(s, safe_pos, safe_end) ==
    IF safe_pos < ByteLen(s) /\ safe_end <= ByteLen(s)
    THEN RopeRemove(s, ByteToChar(s, safe_pos), ByteToChar(s, safe_end))
    ELSE s

\* one iteration of undo's loop: the inverse of op applied to buffer s
UndoOp(s, op) ==
    IF op.kind = "Insert"
    THEN RemoveSpan(s, Min(op.pos, ByteLen(s)),
                       Min(op.pos + ByteLen(op.text), ByteLen(s)))
    ELSE RopeInsert(s, ByteToChar(s, Min(op.pos, ByteLen(s))), op.text)

\* one iteration of redo's loop: op applied again to buffer s
RedoOp(s, op) ==
    IF op.kind = "Insert"
    THEN RopeInsert(s, ByteToChar(s, Min(op.pos, ByteLen(s))), op.text)
    ELSE RemoveSpan(s, Min(op.pos, ByteLen(s)),
                       Min(op.pos + ByteLen(op.text), ByteLen(s)))

RECURSIVE UndoOpsForward(_, _, _)
\* the inverses applied in recorded order: ops[Len(ops)-k+1], .., ops[Len(ops)]
UndoOpsForward(s, ops, k) ==
    IF k = 0 THEN s
    ELSE UndoOpsForward(UndoOp(s, ops[Len(ops) - k + 1].op), ops, k - 1)

RECURSIVE UndoOps(_, _, _)
\* undo's loop, group.ops.iter().rev(): ops[k], ops[k-1], .., ops[1]
UndoOps(s, ops, k) ==
    IF k = 0 THEN s ELSE UndoOps(UndoOp(s, ops[k].op), ops, k - 1)

RECURSIVE RedoOps(_, _, _)
\* redo's loop, in recorded order: ops[k], ops[k+1], .., ops[Len(ops)]
RedoOps(s, ops, k) ==
    IF k > Len(ops) THEN s ELSE RedoOps(RedoOp(s, ops[k].op), ops, k + 1)

\* the caret undo restores: caret_before of the last op visited, the earliest
UndoCaret(e, ops) == IF ops = << >> THEN e.caret ELSE ops[1].before

\* the caret redo restores: caret_after of the last op
RedoCaret(e, ops) == IF ops = << >> THEN e.caret ELSE ops[Len(ops)].after

\* the end of undo and redo, with the new buffer s and the caret to restore
Restore(e, s, new_caret) ==
    [e EXCEPT !.rope = s,
              !.caret = Min(new_caret, ByteLen(s)),
              !.selection_anchor = None,
              !.visual_lines_valid = FALSE]

\* sequence s without its last element
Front(s) == SubSeq(s, 1, Len(s) - 1)
\* the last element of sequence s
Last(s) == s[Len(s)]

\* undo of the group popped from the undo stack
UndoGroup(e, group) ==
    [Restore(e, UndoOps(e.rope, group, Len(group)), UndoCaret(e, group))
        EXCEPT !.undo_stack = Front(e.undo_stack),
               !.redo_stack = Append(@, group),
               !.modified = Front(e.undo_stack) /= << >>]

\* undo after finalize_undo_group
UndoTop(e) ==
    IF e.undo_stack = << >> THEN e ELSE UndoGroup(e, Last(e.undo_stack))

\* Editor::undo
undo(e) == UndoTop(finalize_undo_group(e))

\* redo of the group popped from the redo stack
RedoGroup(e, group) ==
    [Restore(e, RedoOps(e.rope, group, 1), RedoCaret(e, group))
        EXCEPT !.redo_stack = Front(e.redo_stack),
               !.undo_stack = Append(@, group),
               !.modified = TRUE]

\* Editor::redo
redo(e) ==
    IF e.redo_stack = << >> THEN e ELSE RedoGroup(e, Last(e.redo_stack))

(***************************************************************************)
(* Cursor and edit commands of Editor.                                     *)
(***************************************************************************)
\* the prologue moving the anchor to the caret on every extending move
ExtendResettingAnchor(e, extend_selection) ==
    IF extend_selection THEN [e EXCEPT !.selection_anchor = Some(e.caret)]
    ELSE clear_selection(e)

\* the selection prologue shared by the move commands
ExtendOrClear(e, extend_selection) ==
    IF extend_selection /\ e.selection_anchor = None
    THEN [e EXCEPT !.selection_anchor = Some(e.caret)]
    ELSE IF ~extend_selection THEN clear_selection(e)
    ELSE e

\* move_left after the selection prologue
StepLeft(e, width) ==
    IF e.caret > 0 /\ OutOfBounds(e.rope, e.caret) THEN Panic(e)
    ELSE IF e.caret > 0 /\ ByteToChar(e.rope, e.caret) > 0
    THEN SetPreferredCol(
             [e EXCEPT !.caret = CharToByte(e.rope, ByteToChar(e.rope, e.caret) - 1)],
             width)
    ELSE e

\* Editor::move_left
move_left(e, width, extend_selection) ==
    IF ~extend_selection /\ has_selection(e)
    THEN SetPreferredCol(
             clear_selection([e EXCEPT !.caret = get_selection_range(e)[1][1]]), width)
    ELSE StepLeft(ExtendOrClear(e, extend_selection), width)

\* move_right after the selection prologue
StepRight(e, width) ==
    IF e.caret < ByteLen(e.rope) /\ ByteToChar(e.rope, e.caret) < Len(e.rope)
    THEN SetPreferredCol(
             [e EXCEPT !.caret = CharToByte(e.rope, ByteToChar(e.rope, e.caret) + 1)],
             width)
    ELSE e

\* Editor::move_right
move_right(e, width, extend_selection) ==
    IF ~extend_selection /\ has_selection(e)
    THEN SetPreferredCol(
             clear_selection([e EXCEPT !.caret = get_selection_range(e)[1][2]]), width)
    ELSE StepRight(ExtendOrClear(e, extend_selection), width)

RECURSIVE ColScanCountingChars(_, _, _, _)
\* the char loop were it to count one byte for every character
ColScanCountingChars(chars, adjusted_col, width, byte_offset) ==
    IF chars = << >> \/ width >= adjusted_col THEN byte_offset
    ELSE ColScanCountingChars(Tail(chars), adjusted_col,
                              width + CharWidth(Head(chars)), byte_offset + 1)

RECURSIVE ColScan(_, _, _, _)
\* the char loop of visual_to_byte: the bytes passed before the width read
\* reaches adjusted_col
ColScan(chars, adjusted_col, width, byte_offset) ==
    IF chars = << >> \/ width >= adjusted_col THEN byte_offset
    ELSE ColScan(Tail(chars), adjusted_col, width + CharWidth(Head(chars)),
                 byte_offset + Utf8Len(Head(chars)))

\* visual_to_byte on the visual line vline of buffer s
VisualLineByte(s, vline, col) ==
    IF vline.is_continuation /\ col < vline.indent THEN vline.start_byte
    ELSE vline.start_byte
         + ColScan(ByteSlice(s, vline.start_byte, vline.end_byte),
                   SaturatingSub(col, vline.indent), 0, 0)

\* Editor::visual_to_byte on an editor whose visual lines are ensured
visual_to_byte(e, row, col) ==
    IF row < Len(e.visual_lines) /\ e.visual_lines[row + 1] /= None
    THEN VisualLineByte(e.rope, e.visual_lines[row + 1][1], col)
    ELSE ByteLen(e.rope)

\* move_up were it to step to the row above from every row
StepUpFromAnyRow(e, vp) ==
    IF vp.panic THEN Panic(e)
    ELSE IF vp.row > 0
    THEN [e EXCEPT !.caret = visual_to_byte(e, vp.row - 1, e.preferred_col)]
    ELSE e

\* move_up after the selection prologue, the caret at visual position vp
StepUp(e, vp) ==
    IF vp.panic THEN Panic(e)
    ELSE IF vp.row > virtual_lines
    THEN [e EXCEPT !.caret = visual_to_byte(e, vp.row - 1, e.preferred_col)]
    ELSE IF vp.row = virtual_lines /\ ByteLen(e.rope) > 0
    THEN [e EXCEPT !.caret = 0]
    ELSE e

StepUpAtCaret(e) == StepUp(e, get_visual_position(e, e.caret))

\* Editor::move_up
move_up(e, width, extend_selection) ==
    StepUpAtCaret(ensure_visual_lines(ExtendOrClear(e, extend_selection), width))

\* move_down were it to take preferred_col from the row it reaches
StepDownSettingCol(e, vp, width) ==
    IF vp.panic THEN Panic(e)
    ELSE IF vp.row < virtual_lines /\ ByteLen(e.rope) > 0
    THEN SetPreferredCol([e EXCEPT !.caret = 0], width)
    ELSE IF vp.row < Len(e.visual_lines) - virtual_lines - 1
    THEN SetPreferredCol(
             [e EXCEPT !.caret = visual_to_byte(e, vp.row + 1, e.preferred_col)], width)
    ELSE e

\* move_down after the selection prologue, the caret at visual position vp
StepDown(e, vp, width) ==
    IF vp.panic THEN Panic(e)
    ELSE IF vp.row < virtual_lines /\ ByteLen(e.rope) > 0
    THEN SetPreferredCol([e EXCEPT !.caret = 0], width)
    ELSE IF vp.row < Len(e.visual_lines) - virtual_lines - 1
    THEN [e EXCEPT !.caret = visual_to_byte(e, vp.row + 1, e.preferred_col)]
    ELSE e

StepDownAtCaret(e, width) == StepDown(e, get_visual_position(e, e.caret), width)

\* Editor::move_down
move_down(e, width, extend_selection) ==
    StepDownAtCaret(ensure_visual_lines(ExtendOrClear(e, extend_selection), width), width)

\* Editor::select_all
select_all(e) ==
    [e EXCEPT !.selection_anchor = Some(0), !.caret = ByteLen(e.rope)]

\* insert_char and paste after delete_selection: text goes in at the caret
InsertText(e, text, width) ==
    IF e.panicked THEN e
    ELSE IF OutOfBounds(e.rope, e.caret) THEN Panic(e)
    ELSE SetPreferredCol(invalidate_visual_lines(
             push_op([e EXCEPT !.rope = RopeInsert(@, ByteToChar(e.rope, e.caret), text),
                               !.caret = @ + ByteLen(text)],
                     Insert(e.caret, text), e.caret, e.caret + ByteLen(text))),
             width)

\* Editor::insert_char
insert_char(e, ch, width) == InsertText(delete_selection(e), <<ch>>, width)

\* Editor::paste; got is the clipboard's text, None when reading it failed
paste(e, got, width) ==
    IF got /= None THEN InsertText(delete_selection(e), got[1], width) ELSE e

\* delete recording an empty Delete at the end of the buffer
DeleteCharRecording(e, char_idx) ==
    IF e.caret < ByteLen(e.rope) /\ char_idx < Len(e.rope)
    THEN invalidate_visual_lines(
             push_op([e EXCEPT !.rope = RopeRemove(@, char_idx, char_idx + 1)],
                     Delete(e.caret, << e.rope[char_idx + 1] >>), e.caret, e.caret))
    ELSE push_op(e, Delete(e.caret, << >>), e.caret, e.caret)

\* delete without a selection: the char at char_idx goes
DeleteChar(e, char_idx) ==
    IF e.caret < ByteLen(e.rope) /\ char_idx < Len(e.rope)
    THEN invalidate_visual_lines(
             push_op([e EXCEPT !.rope = RopeRemove(@, char_idx, char_idx + 1)],
                     Delete(e.caret, << e.rope[char_idx + 1] >>), e.caret, e.caret))
    ELSE e

\* Editor::delete
delete(e) ==
    IF HasRange(e) THEN delete_selection(e)
    ELSE DeleteChar(e, ByteToChar(e.rope, e.caret))

\* backspace without a selection: the char before char_idx goes
BackspaceChar(e, char_idx) ==
    IF e.caret > 0 /\ char_idx > 0
    THEN invalidate_visual_lines(
             push_op([e EXCEPT !.rope = RopeRemove(@, char_idx - 1, char_idx),
                               !.caret = @ - Utf8Len(e.rope[char_idx])],
                     Delete(e.caret - Utf8Len(e.rope[char_idx]), << e.rope[char_idx] >>),
                     e.caret, e.caret - Utf8Len(e.rope[char_idx])))
    ELSE e

\* Editor::backspace
backspace(e) ==
    IF HasRange(e) THEN delete_selection(e)
    ELSE IF e.caret > 0 /\ OutOfBounds(e.rope, e.caret) THEN Panic(e)
    ELSE BackspaceChar(e, ByteToChar(e.rope, e.caret))

\* the text indent inserts
FourSpaces == <<" ", " ", " ", " ">>

\* the line of byte offset b
LineOfByte(s, b) == CharToLine(s, ByteToChar(s, b))

\* the byte offset at which line l starts
LineByte(s, l) == CharToByte(s, LineToChar(s, l))

\* IndentShift were it to leave an offset at the start of a line alone
IndentShiftPastStart(p, line_byte) == IF p > line_byte THEN 4 ELSE 0

\* the adjustment indent adds for offset p (caret or anchor) and a line
IndentShift(p, line_byte) == IF p >= line_byte THEN 4 ELSE 0

\* one iteration of indent's loop; st = [e, caret_adjustment, anchor_adjustment];
\* e.caret is the caret before the command throughout
IndentLine(st, line_byte, before_caret) ==
    [e |-> push_op([st.e EXCEPT
                      !.rope = RopeInsert(@, ByteToChar(st.e.rope, line_byte),
                                          FourSpaces)],
                   Insert(line_byte, FourSpaces), before_caret, st.e.caret),
     caret_adjustment |-> st.caret_adjustment + IndentShift(st.e.caret, line_byte),
     anchor_adjustment |->
         st.anchor_adjustment +
         (IF st.e.selection_anchor /= None
          THEN IndentShift(st.e.selection_anchor[1], line_byte) ELSE 0)]

RECURSIVE IndentLines(_, _, _, _)
\* indent's loop over the selected lines, from end_line down to start_line
IndentLines(st, line_idx, start_line, before_caret) ==
    IF line_idx < start_line THEN st
    ELSE IndentLines(IndentLine(st, LineByte(st.e.rope, line_idx), before_caret),
                     line_idx - 1, start_line, before_caret)

\* "Apply adjustments" of indent (sign = 1) and dedent (sign = -1): the editor after it
ApplyAdjustments(st, sign) ==
    [st.e EXCEPT
       !.caret = @ + sign * st.caret_adjustment,
       !.selection_anchor =
           IF @ /= None THEN Some(@[1] + sign * st.anchor_adjustment) ELSE @]

\* indent without a selection, line_byte the start of the caret's line
IndentCurrentLine(e, line_byte, width) ==
    SetPreferredCol(invalidate_visual_lines(
        push_op([e EXCEPT !.rope = RopeInsert(@, ByteToChar(e.rope, line_byte),
                                              FourSpaces),
                          !.caret = @ + IndentShift(e.caret, line_byte)],
                Insert(line_byte, FourSpaces),
                e.caret, e.caret + IndentShift(e.caret, line_byte))),
        width)

\* a fresh loop state
LoopState(e) == [e |-> e, caret_adjustment |-> 0, anchor_adjustment |-> 0]

\* Editor::indent
indent(e, width) ==
    IF OutOfBounds(e.rope, e.caret)
       \/ (e.selection_anchor /= None /\ OutOfBounds(e.rope, e.selection_anchor[1]))
    THEN Panic(e)
    ELSE IF get_selection_range(e) /= None
    THEN SetPreferredCol(invalidate_visual_lines(ApplyAdjustments(
             IndentLines(LoopState(e),
                         LineOfByte(e.rope, get_selection_range(e)[1][2]),
                         LineOfByte(e.rope, get_selection_range(e)[1][1]),
                         e.caret), 1)), width)
    ELSE IndentCurrentLine(e, LineByte(e.rope, LineOfByte(e.rope, e.caret)), width)

RECURSIVE LeadingSpaces(_, _)
\* dedent's count of the spaces among the first n chars of a line
LeadingSpaces(line, n) ==
    IF n = 0 \/ line = << >> \/ Head(line) /= " " THEN 0
    ELSE 1 + LeadingSpaces(Tail(line), n - 1)

\* " ".repeat(n)
Spaces(n) == [i \in 1..n |-> " "]

\* the adjustment dedent adds for offset p (caret or anchor) and a line
DedentShift(p, line_byte, spaces) ==
    IF p > line_byte
    THEN (IF p >= line_byte + spaces THEN spaces ELSE p - line_byte)
    ELSE 0

\* one iteration of dedent's loop for a line with spaces > 0
DedentLine(st, line_byte, spaces, before_caret) ==
    [e |-> push_op([st.e EXCEPT
                      !.rope = RopeRemove(@, ByteToChar(st.e.rope, line_byte),
                                          ByteToChar(st.e.rope, line_byte) + spaces)],
                   Delete(line_byte, Spaces(spaces)), before_caret, st.e.caret),
     caret_adjustment |->
         st.caret_adjustment + DedentShift(st.e.caret, line_byte, spaces),
     anchor_adjustment |->
         st.anchor_adjustment +
         (IF st.e.selection_anchor /= None
          THEN DedentShift(st.e.selection_anchor[1], line_byte, spaces) ELSE 0)]

RECURSIVE DedentLines(_, _, _, _)
\* dedent's loop over the selected lines, from end_line down to start_line
DedentLines(st, line_idx, start_line, before_caret) ==
    IF line_idx < start_line THEN st
    ELSE IF LeadingSpaces(RopeLine(st.e.rope, line_idx), 4) > 0
    THEN DedentLines(DedentLine(st, LineByte(st.e.rope, line_idx),
                                LeadingSpaces(RopeLine(st.e.rope, line_idx), 4),
                                before_caret),
                     line_idx - 1, start_line, before_caret)
    ELSE DedentLines(st, line_idx - 1, start_line, before_caret)

\* the caret after dedent without a selection
DedentCaret(p, line_byte, spaces) ==
    IF p >= line_byte + spaces THEN p - spaces
    ELSE IF p > line_byte THEN line_byte
    ELSE p

\* dedent without a selection, on the caret's line
DedentCurrentLine(e, line_byte, spaces, width) ==
    IF spaces > 0
    THEN SetPreferredCol(invalidate_visual_lines(
             push_op([e EXCEPT
                        !.rope = RopeRemove(@, ByteToChar(e.rope, line_byte),
                                            ByteToChar(e.rope, line_byte) + spaces),
                        !.caret = DedentCaret(@, line_byte, spaces)],
                     Delete(line_byte, Spaces(spaces)),
                     e.caret, DedentCaret(e.caret, line_byte, spaces))),
             width)
    ELSE e

\* Editor::dedent
dedent(e, width) ==
    IF OutOfBounds(e.rope, e.caret)
       \/ (e.selection_anchor /= None /\ OutOfBounds(e.rope, e.selection_anchor[1]))
    THEN Panic(e)
    ELSE IF get_selection_range(e) /= None
    THEN SetPreferredCol(invalidate_visual_lines(ApplyAdjustments(
             DedentLines(LoopState(e),
                         LineOfByte(e.rope, get_selection_range(e)[1][2]),
                         LineOfByte(e.rope, get_selection_range(e)[1][1]),
                         e.caret), -1)), width)
    ELSE DedentCurrentLine(e, LineByte(e.rope, LineOfByte(e.rope, e.caret)),
                           LeadingSpaces(RopeLine(e.rope, LineOfByte(e.rope, e.caret)), 4),
                           width)

\* Editor::copy: the editor after it; the slice it takes of a selection that
\* reaches beyond the buffer panics
copy(e) ==
    IF HasRange(e)
       /\ SlicePanics(e.rope, get_selection_range(e)[1][1], get_selection_range(e)[1][2])
    THEN Panic(e)
    ELSE e

\* whether copy handed a text to the clipboard
copy_writes(e) == HasRange(e) /\ ~copy(e).panicked

\* the value Editor::copy returns; set_ok is whether the clipboard accepted
\* the text
copy_returns(e, set_ok) == copy_writes(e) /\ set_ok

\* cut deleting the selection whatever copy returned
cut_ignoring_copy(e, set_ok) ==
    IF copy(e).panicked THEN Panic(e) ELSE delete_selection(e)

\* Editor::cut: the editor after it
cut(e, set_ok) ==
    IF copy(e).panicked THEN Panic(e)
    ELSE IF copy_returns(e, set_ok) THEN delete_selection(e)
    ELSE e

(***************************************************************************)
(* Find and replace.  A Prompt is modelled by the fields the find/replace  *)
(* bar edits; the prompt's own selection is never set by the handlers      *)
(* modelled here, so Prompt::delete_selection has nothing to delete.       *)
(***************************************************************************)
\* Prompt::new_find_replace
new_find_replace ==
    [prompt_type |-> "FindReplace", input |-> << >>, cursor_pos |-> 0, replace_input |-> << >>,
     replace_cursor_pos |-> 0, active_field |-> "Find"]

\* Prompt::insert_char: the input of a SaveAs prompt, the active field of a
\* FindReplace prompt, nothing in a ConfirmSave prompt
PromptInsertChar(prompt, ch) ==
    IF prompt.prompt_type = "ConfirmSave" THEN prompt
    ELSE IF prompt.prompt_type = "SaveAs" \/ prompt.active_field = "Find"
    THEN [prompt EXCEPT !.input = RopeInsert(@, ByteToChar(@, prompt.cursor_pos), <<ch>>),
                        !.cursor_pos = @ + Utf8Len(ch)]
    ELSE IF prompt.prompt_type = "FindReplace" /\ prompt.active_field = "Replace"
    THEN [prompt EXCEPT !.replace_input =
                            RopeInsert(@, ByteToChar(@, prompt.replace_cursor_pos), <<ch>>),
                        !.replace_cursor_pos = @ + Utf8Len(ch)]
    ELSE prompt

\* the char_indices().rev().find of Prompt::backspace: the char index of the
\* last char that starts before byte offset pos
CharBefore(text, pos) ==
    CHOOSE c \in 0..(Len(text) - 1) :
        /\ CharToByte(text, c) < pos
        /\ (c = Len(text) - 1 \/ CharToByte(text, c + 1) >= pos)

\* Prompt::backspace of a FindReplace prompt
PromptBackspaceChar(prompt) ==
    IF prompt.prompt_type = "ConfirmSave" THEN prompt
    ELSE IF (prompt.prompt_type = "SaveAs" \/ prompt.active_field = "Find")
            /\ prompt.cursor_pos > 0 /\ prompt.input /= << >>
    THEN [prompt EXCEPT !.input = RopeRemove(@, CharBefore(@, prompt.cursor_pos),
                                             CharBefore(@, prompt.cursor_pos) + 1),
                        !.cursor_pos = CharToByte(prompt.input,
                                                  CharBefore(prompt.input, prompt.cursor_pos))]
    ELSE IF prompt.prompt_type = "FindReplace" /\ prompt.active_field = "Replace"
            /\ prompt.replace_cursor_pos > 0
            /\ prompt.replace_input /= << >>
    THEN [prompt EXCEPT !.replace_input =
                            RopeRemove(@, CharBefore(@, prompt.replace_cursor_pos),
                                       CharBefore(@, prompt.replace_cursor_pos) + 1),
                        !.replace_cursor_pos =
                            CharToByte(prompt.replace_input,
                                       CharBefore(prompt.replace_input,
                                                  prompt.replace_cursor_pos))]
    ELSE prompt

\* the Tab arm of a FindReplace prompt: Find, Replace, Buffer, Find, ...
NextField(field) ==
    IF field = "Find" THEN "Replace" ELSE IF field = "Replace" THEN "Buffer" ELSE "Find"

\* Editor::clear_find_matches
clear_find_matches(e) ==
    [e EXCEPT !.find_matches = << >>, !.current_match_index = None]

\* Editor::jump_to_current_match
jump_to_current_match(e) ==
    IF e.current_match_index /= None /\ e.current_match_index[1] < Len(e.find_matches)
    THEN [e EXCEPT !.caret = e.find_matches[e.current_match_index[1] + 1][1],
                   !.selection_anchor = None,
                   !.preferred_col = 0]
    ELSE e

\* find_next stepping to the match before the current one
find_next_backwards(e) ==
    IF e.current_match_index /= None /\ e.find_matches /= << >>
    THEN jump_to_current_match(
             [e EXCEPT !.current_match_index =
                           Some(IF e.current_match_index[1] = 0
                                THEN Len(e.find_matches) - 1
                                ELSE e.current_match_index[1] - 1)])
    ELSE e

\* Editor::find_next
find_next(e) ==
    IF e.current_match_index /= None /\ e.find_matches /= << >>
    THEN jump_to_current_match(
             [e EXCEPT !.current_match_index =
                           Some((e.current_match_index[1] + 1) % Len(e.find_matches))])
    ELSE e

\* find_previous wrapping from the first match to the length of the list
find_previous_wrapping_to_len(e) ==
    IF e.current_match_index /= None /\ e.find_matches /= << >>
    THEN jump_to_current_match(
             [e EXCEPT !.current_match_index =
                           Some(IF e.current_match_index[1] = 0
                                THEN Len(e.find_matches)
                                ELSE e.current_match_index[1] - 1)])
    ELSE e

\* Editor::find_previous
find_previous(e) ==
    IF e.current_match_index /= None /\ e.find_matches /= << >>
    THEN jump_to_current_match(
             [e EXCEPT !.current_match_index =
                           Some(IF e.current_match_index[1] = 0
                                THEN Len(e.find_matches) - 1
                                ELSE e.current_match_index[1] - 1)])
    ELSE e

RECURSIVE Windows(_, _, _)
\* the windows() loop of update_find_matches from char index i on: one match
\* per position at which the query's bytes stand.  UTF-8 is self-
\* synchronising, so the bytes of a query stand only at char boundaries.
Windows(text, query, i) ==
    IF i + Len(query) > Len(text) THEN << >>
    ELSE (IF SubSeq(text, i + 1, i + Len(query)) = query
          THEN << <<CharToByte(text, i), CharToByte(text, i) + ByteLen(query)>> >>
          ELSE << >>)
         \o Windows(text, query, i + 1)

RECURSIVE FoundIndexAfter(_, _, _)
\* the found_index loop taking only matches that start after current_pos
FoundIndexAfter(matches, current_pos, i) ==
    IF i >= Len(matches) THEN None
    ELSE IF matches[i + 1][1] > current_pos THEN Some(i)
    ELSE FoundIndexAfter(matches, current_pos, i + 1)

RECURSIVE FoundIndex(_, _, _)
\* the found_index loop of update_find_matches: the first match, from index i
\* on, that starts at or after current_pos
FoundIndex(matches, current_pos, i) ==
    IF i >= Len(matches) THEN None
    ELSE IF matches[i + 1][1] >= current_pos THEN Some(i)
    ELSE FoundIndex(matches, current_pos, i + 1)

\* Option::or(Some(0))
OrSomeZero(found_index) == IF found_index = None THEN Some(0) ELSE found_index

\* update_find_matches jumps unless the buffer has the focus of the
\* find/replace bar; in AppState::Editing it does not jump
JumpIfPrompting(e) ==
    IF /\ e.app_state.state = "Prompting"
       /\ ~(e.app_state.prompt.prompt_type = "FindReplace"
            /\ e.app_state.prompt.active_field = "Buffer")
    THEN jump_to_current_match(e)
    ELSE e

\* update_find_matches once the matches are collected
WithMatches(e, matches) ==
    IF matches = << >> THEN e
    ELSE JumpIfPrompting([e EXCEPT !.find_matches = matches,
                                   !.current_match_index =
                                       OrSomeZero(FoundIndex(matches, e.caret, 0))])

\* update_find_matches were it to return on an empty query before clearing
update_find_matches_keeping(e, query) ==
    IF query = << >> THEN e
    ELSE WithMatches(clear_find_matches(e), Windows(e.rope, query, 0))

\* Editor::update_find_matches
update_find_matches(e, query) ==
    IF query = << >> THEN [e EXCEPT !.find_matches = << >>, !.current_match_index = None]
    ELSE WithMatches([e EXCEPT !.find_matches = << >>, !.current_match_index = None],
                     Windows(e.rope, query, 0))

RECURSIVE InsertChars(_, _, _)
\* for ch in replacement.chars() { insert_char(ch) }
InsertChars(e, text, width) ==
    IF text = << >> THEN e
    ELSE InsertChars(insert_char(e, Head(text), width), Tail(text), width)

\* one turn of replace_all's loop: the first match is selected, deleted and
\* replaced, and the matches are collected again
ReplaceFirst(e, query, replacement, width) ==
    update_find_matches(
        InsertChars(delete_selection([e EXCEPT !.caret = e.find_matches[1][1],
                                               !.selection_anchor =
                                                   Some(e.find_matches[1][2])]),
                    replacement, width),
        query)

RECURSIVE FoundNext(_, _, _)
\* the found_next loop of replace_current: the first match, from index i on,
\* that starts after position_after_replace
FoundNext(matches, position_after_replace, i) ==
    IF i >= Len(matches) THEN None
    ELSE IF matches[i + 1][1] > position_after_replace THEN Some(i)
    ELSE FoundNext(matches, position_after_replace, i + 1)

\* replace_current keeping the current match update_find_matches chose
SeekKeeping(e, position_after_replace) == e

\* replace_current after update_find_matches(query): the next match becomes
\* the current one
SeekAfterReplace(e, position_after_replace) ==
    IF e.find_matches /= << >>
    THEN jump_to_current_match(
             [e EXCEPT !.current_match_index =
                           OrSomeZero(FoundNext(e.find_matches,
                                                position_after_replace, 0))])
    ELSE [e EXCEPT !.current_match_index = None]

\* replace_current from finalize_undo_group to last_edit_time = None: the
\* match start..end gives way to the replacement
ReplaceMatch(e, start, end, replacement, width) ==
    [finalize_undo_group(
         InsertChars(delete_selection([finalize_undo_group(e)
                                          EXCEPT !.caret = start,
                                                 !.selection_anchor = Some(end)]),
                     replacement, width))
        EXCEPT !.last_edit_time = "None"]

\* the query replace_current reads from the prompt
QueryOf(e) ==
    IF e.app_state.state = "Prompting" THEN e.app_state.prompt.input ELSE << >>

\* replace_current from if !query.is_empty() on
RescanAfterReplace(e, query) ==
    IF e.panicked \/ query = << >> THEN e
    ELSE SeekAfterReplace(update_find_matches(e, query), e.caret)

\* Editor::replace_current
replace_current(e, replacement, width) ==
    IF e.current_match_index /= None
       /\ e.current_match_index[1] < Len(e.find_matches)
    THEN RescanAfterReplace(
             ReplaceMatch(e, e.find_matches[e.current_match_index[1] + 1][1],
                          e.find_matches[e.current_match_index[1] + 1][2],
                          replacement, width),
             QueryOf(e))
    ELSE e

\* Editor::refresh_find_matches_if_active
refresh_find_matches_if_active(e) ==
    IF /\ e.app_state.state = "Prompting"
       /\ e.app_state.prompt.prompt_type = "FindReplace"
       /\ e.app_state.prompt.input /= << >>
    THEN update_find_matches(e, e.app_state.prompt.input)
    ELSE e

\* replace_all up to its loop
ReplaceAllBegin(e, query) == update_find_matches(finalize_undo_group(e), query)

\* replace_all after its loop
ReplaceAllFinish(e) == [finalize_undo_group(e) EXCEPT !.last_edit_time = "None"]

\* what the replace-all handlers do after replace_all returned
AfterReplaceAll(e, width) ==
    [clear_find_matches(update_viewport(e, width)) EXCEPT !.app_state = Editing]

(***************************************************************************)
(* Bounds and inputs of the editing specification.                         *)
(***************************************************************************)
\* how many commands that record edits one behaviour holds
MaxEdits == 2

\* how many cursor commands one behaviour holds
MaxMoves == 1

\* the characters KeyCode::Char can deliver
TypeChars == {"a"}

\* the texts the system clipboard can hold when paste reads it
Clips == { <<"W", "b">> }

\* the buffers the editor starts with: empty (Editor::new) or a loaded file
InitRopes == { << >>, <<"a", "\n", " ", "b">> }

\* the terminal widths of the editing specification
EditWidths == {4}

(***************************************************************************)
(* History for the properties.                                             *)
(*   max_edits, max_moves   how many commands that record edits and how    *)
(*             many cursor commands the behaviour holds                    *)
(*   orig      the buffer at the start                                     *)
(*   phase     "fresh": nothing recorded yet; "editing": only insert and   *)
(*             delete edits, moves and pauses so far; "undoing": those,    *)
(*             then only undo; "mixed": anything else                      *)
(*   caret0    the caret before the first edit                             *)
(*   n_edits   commands that called push_op                                *)
(*   n_moves   cursor commands                                             *)
(*   last      "edit", "undo" right after it, "redo" right after that,     *)
(*             "edit_redo" for redo right after an edit, or "other"        *)
(*   cmd, sel_lines, pre, post   the last edit command, the lines its      *)
(*             selection spanned (0: no selection), the state before and   *)
(*             after it; last is "other" with cmd and pre set right after  *)
(*             an edit command that recorded nothing ("replace_all": the   *)
(*             call with the empty query)                                  *)
(*   extend    after a cursor command (cmd its name, pre the state before  *)
(*             it): whether it was asked to extend the selection           *)
(*   col       after a cursor command: preferred_col before it             *)
(*   seek      after find_next ("next") or find_previous ("prev"): the     *)
(*             current index before it; for a run of find_next calls the   *)
(*             index the run started from and its length, counted up to    *)
(*             the number of matches; for find_previous right after        *)
(*             find_next the index from before that find_next; after       *)
(*             replace_current ("replace_current") or a replace_all that   *)
(*             returned ("replace_all"), when it recorded an edit: the     *)
(*             buffer, caret and matches before it, the current index, the *)
(*             query and the replacement; "replace_current_undone" and     *)
(*             "replace_all_undone" after the undo that followed at once   *)
(*   rec       the entries the last command handed to push_op              *)
(*   recorded  whether these entries ended the open group after it         *)
(*   timing    last_edit_time, whether a group was open, and the sizes of  *)
(*             the undo and redo stacks before it                          *)
(*   find      the query of update_find_matches when the last handler      *)
(*             that touched the matches ended with that call, else None    *)
(*   pre_find  the buffer, caret and matches before that call              *)
(*   ra        the last replace_all: the buffer when it was called, its    *)
(*             arguments, the turns its loop took so far, whether it       *)
(*             returned, until the next command; calls counts the calls    *)
(*             that entered the loop                                       *)
(*   io        the last save, save_as, load_file, copy, cut or paste when  *)
(*             it was the last command: which one, whether the file system *)
(*             or the clipboard failed, whether it returned Ok or true,    *)
(*             the editor before it, the content read, and the undo and    *)
(*             redo commands that followed a load at once                  *)
(***************************************************************************)
NoSnap == [rope |-> << >>, caret |-> 0, anchor |-> None, undo_stack |-> << >>,
           redo_stack |-> << >>, current_group |-> None, modified |-> FALSE]
Snap(e) == [rope |-> e.rope, caret |-> e.caret, anchor |-> e.selection_anchor,
            undo_stack |-> e.undo_stack, redo_stack |-> e.redo_stack,
            current_group |-> e.current_group, modified |-> e.modified]
NoTiming == [last_edit_time |-> "None", open |-> FALSE, groups |-> 0, undone |-> 0]
Timing(e) == [last_edit_time |-> e.last_edit_time, open |-> e.current_group /= None,
              groups |-> Len(e.undo_stack), undone |-> Len(e.redo_stack)]

NoFindSnap == [rope |-> << >>, caret |-> 0, anchor |-> None, matches |-> << >>]
FindSnap(e) == [rope |-> e.rope, caret |-> e.caret, anchor |-> e.selection_anchor,
                matches |-> e.find_matches]
NoFileSnap == [snap |-> NoSnap, filename |-> None]
FileSnap(e) == [snap |-> Snap(e), filename |-> e.filename]
NoIo == [op |-> "none", failed |-> FALSE, ok |-> FALSE, pre |-> NoFileSnap,
         content |-> << >>, after |-> << >>]
NoSeek == [cmd |-> "none", from |-> None, base |-> None, run |-> 0, undone |-> None,
           pre |-> NoFindSnap, query |-> << >>, replacement |-> << >>]
NoReplaceHist == [orig |-> << >>, query |-> << >>, replacement |-> << >>,
                  count |-> 0, done |-> FALSE, calls |-> 0]

InitHist(s, max_edits, max_moves) ==
    [max_edits |-> max_edits, max_moves |-> max_moves,
     orig |-> s, phase |-> "fresh", caret0 |-> 0, n_edits |-> 0, n_moves |-> 0,
     last |-> "other", cmd |-> "", sel_lines |-> 0,
     pre |-> NoSnap, post |-> NoSnap, rec |-> << >>, recorded |-> FALSE,
     timing |-> NoTiming, find |-> None, pre_find |-> NoFindSnap, ra |-> NoReplaceHist,
     io |-> NoIo, extend |-> FALSE, col |-> 0, seek |-> NoSeek, saved |-> s]

\* the lines spanned by the selection of e, 0 when there is none
SelLines(e) ==
    IF get_selection_range(e) = None THEN 0
    ELSE LineOfByte(e.rope, get_selection_range(e)[1][2])
         - LineOfByte(e.rope, get_selection_range(e)[1][1]) + 1

\* whether ops are the last entries of group g
EndsWith(g, ops) ==
    Len(g) >= Len(ops) /\ SubSeq(g, Len(g) - Len(ops) + 1, Len(g)) = ops

\* whether the entries of e.rec are the last entries of the open group
Recorded(e) ==
    e.rec /= << >> /\ e.current_group /= None /\ EndsWith(e.current_group[1], e.rec)

\* the history when nothing was recorded
HistOther(phase) ==
    [h EXCEPT !.last = "other", !.cmd = "", !.sel_lines = 0, !.pre = NoSnap,
              !.post = NoSnap, !.rec = << >>, !.recorded = FALSE,
              !.timing = NoTiming, !.phase = phase, !.io = NoIo, !.extend = FALSE,
              !.col = 0, !.seek = NoSeek, !.ra = [NoReplaceHist EXCEPT !.calls = h.ra.calls]]

\* the history after an edit command cmd took e0 to e1; plain is TRUE for the
\* insert and delete edits (insert_char, paste, delete, backspace, cut)
HistEdit(cmd, plain, e0, e1) ==
    IF e1.rec = << >>
    THEN [HistOther(IF h.phase \in {"fresh", "editing"} THEN h.phase ELSE "mixed")
             EXCEPT !.cmd = cmd, !.pre = Snap(e0)]
    ELSE [h EXCEPT !.last = "edit", !.cmd = cmd, !.sel_lines = SelLines(e0),
                   !.pre = Snap(e0), !.post = Snap(e1), !.rec = e1.rec,
                   !.recorded = Recorded(e1),
                   !.timing = Timing(e0),
                   !.n_edits = @ + 1, !.io = NoIo, !.extend = FALSE, !.col = 0,
                   !.seek = NoSeek,
                   !.ra = [NoReplaceHist EXCEPT !.calls = h.ra.calls],
                   !.caret0 = IF h.phase = "fresh" THEN e0.caret ELSE @,
                   !.phase = IF plain /\ @ \in {"fresh", "editing"}
                             THEN "editing" ELSE "mixed"]

\* the history after a cursor command
HistMove ==
    [HistOther(IF h.phase \in {"fresh", "editing"} THEN h.phase ELSE "mixed")
        EXCEPT !.n_moves = @ + 1]

\* the history after the cursor command cmd ran on e0
HistMoveOf(cmd, extend_selection, e0) ==
    [HistMove EXCEPT !.cmd = cmd, !.pre = Snap(e0), !.extend = extend_selection,
                     !.col = e0.preferred_col]

\* the phase after undo
UndoPhase == IF h.phase \in {"editing", "undoing"} THEN "undoing" ELSE "mixed"

\* the io entry after undo or redo: kept while at most two of them have
\* followed a load that returned Ok
IoAfter(cmd) ==
    IF h.io.op = "load_file" /\ h.io.ok /\ Len(h.io.after) < 2
    THEN [h.io EXCEPT !.after = Append(@, cmd)]
    ELSE NoIo

\* the seek entry after undo
SeekAfterUndo ==
    IF h.seek.cmd = "replace_current" THEN [h.seek EXCEPT !.cmd = "replace_current_undone"]
    ELSE IF h.seek.cmd = "replace_all" THEN [h.seek EXCEPT !.cmd = "replace_all_undone"]
    ELSE NoSeek

\* the history after undo
HistUndo ==
    IF h.last = "edit"
    THEN [h EXCEPT !.last = "undo", !.rec = << >>, !.phase = UndoPhase, !.io = NoIo]
    ELSE [HistOther(UndoPhase) EXCEPT !.io = IoAfter("undo"), !.seek = SeekAfterUndo]

\* the history after redo
HistRedo ==
    IF h.last = "undo"
    THEN [h EXCEPT !.last = "redo", !.rec = << >>, !.phase = "mixed", !.io = NoIo]
    ELSE IF h.last = "edit"
    THEN [h EXCEPT !.last = "edit_redo", !.rec = << >>, !.phase = "mixed", !.io = NoIo]
    ELSE [HistOther("mixed") EXCEPT !.io = IoAfter("redo")]

\* the io entry of a call on e0
Io(op, failed, ok, e0, content) ==
    [op |-> op, failed |-> failed, ok |-> ok, pre |-> FileSnap(e0),
     content |-> content, after |-> << >>]

\* the history after save, save_as or load_file ran on e0
HistIo(op, failed, ok, e0, content) ==
    [HistOther("mixed") EXCEPT
        !.io = Io(op, failed, ok, e0, content),
        !.saved = IF ~ok THEN @
                  ELSE IF op = "load_file" THEN content
                  ELSE e0.rope]

\* the history after copy, cut or paste took e0 to e1
HistClip(op, failed, ok, e0, e1) ==
    [HistEdit(op, TRUE, e0, e1) EXCEPT !.io = Io(op, failed, ok, e0, << >>)]

(***************************************************************************)
(* The key handlers of run_app in AppState::Editing.  Each ends with       *)
(* update_viewport; draw_ui then runs before the next event is read.       *)
(***************************************************************************)
\* the loop of run_app is at event::read(): the frame has been drawn and the
\* state is not Exiting
Idle == pc = "idle" /\ ~panicked /\ visual_lines_valid /\ app_state /= Exiting
\* ... and the match on app_state takes the AppState::Editing arm
InEditing == Idle /\ app_state = Editing
CanEdit == InEditing /\ h.n_edits < h.max_edits
CanMove == InEditing /\ h.n_moves < h.max_moves
Frame == UNCHANGED << viewport_width, pc, ra >>

\* the end of a handler that ran an edit command taking e0 to e1
Commit(cmd, plain, e0, e1) ==
    Set(e1) /\ h' = HistEdit(cmd, plain, e0, e1) /\ Frame

\* the end of a handler that ran another command and left e1
CommitOther(e1, hist) ==
    Set(e1) /\ h' = hist /\ Frame

\* KeyCode::Char(c)
KeyChar(c) ==
    /\ CanEdit
    /\ Commit("insert_char", TRUE, Cur,
              update_viewport(insert_char(Cur, c, viewport_width), viewport_width))

\* editor.preferred_col = 0 of the Enter handler
ResetPreferredCol(e) == IF e.panicked THEN e ELSE [e EXCEPT !.preferred_col = 0]

\* KeyCode::Enter
KeyEnter ==
    /\ CanEdit
    /\ Commit("insert_char", TRUE, Cur,
              update_viewport(ResetPreferredCol(insert_char(Cur, "\n", viewport_width)),
                              viewport_width))

\* KeyCode::Backspace
KeyBackspace ==
    /\ CanEdit
    /\ Commit("backspace", TRUE, Cur, update_viewport(backspace(Cur), viewport_width))

\* KeyCode::Delete
KeyDelete ==
    /\ CanEdit
    /\ Commit("delete", TRUE, Cur, update_viewport(delete(Cur), viewport_width))

\* KeyCode::Tab without Shift
KeyTab ==
    /\ CanEdit
    /\ Commit("indent", FALSE, Cur,
              update_viewport(indent(Cur, viewport_width), viewport_width))

\* KeyCode::BackTab, and KeyCode::Tab with Shift
KeyBackTab ==
    /\ CanEdit
    /\ Commit("dedent", FALSE, Cur,
              update_viewport(dedent(Cur, viewport_width), viewport_width))

\* the Ctrl+X handler's update_viewport, run when cut returned true
AfterCut(e, width) == IF e.rec /= << >> THEN update_viewport(e, width) ELSE e

\* the end of a handler that ran copy, cut or paste and left e1
CommitClip(op, failed, ok, e1) ==
    CommitOther(e1, HistClip(op, failed, ok, Cur, e1))

\* Ctrl+C; the clipboard write succeeds or fails
KeyCtrlC ==
    /\ InEditing
    /\ \E set_ok \in BOOLEAN :
         CommitClip("copy", copy_writes(Cur) /\ ~set_ok, copy_returns(Cur, set_ok),
                    copy(Cur))

\* Ctrl+X; the clipboard write succeeds or fails
KeyCtrlX ==
    /\ CanEdit
    /\ \E set_ok \in BOOLEAN :
         CommitClip("cut", copy_writes(Cur) /\ ~set_ok, copy_returns(Cur, set_ok),
                    AfterCut(cut(Cur, set_ok), viewport_width))

\* Ctrl+V; the clipboard read fails or succeeds with some text
KeyCtrlV ==
    /\ CanEdit
    /\ \E got \in {None} \cup {Some(text) : text \in Clips} :
         CommitClip("paste", got = None, got /= None,
                    update_viewport(paste(Cur, got, viewport_width), viewport_width))

\* Ctrl+Z
KeyCtrlZ ==
    /\ InEditing
    /\ CommitOther(update_viewport(undo(Cur), viewport_width), HistUndo)

\* Ctrl+Y
KeyCtrlY ==
    /\ InEditing
    /\ CommitOther(update_viewport(redo(Cur), viewport_width), HistRedo)

\* Ctrl+A
KeyCtrlA ==
    /\ CanMove
    /\ CommitOther(update_viewport(select_all(Cur), viewport_width),
                   HistMoveOf("select_all", FALSE, Cur))

\* KeyCode::Left, with or without Shift
KeyLeft ==
    /\ CanMove
    /\ \E shift \in BOOLEAN :
         CommitOther(update_viewport(move_left(Cur, viewport_width, shift),
                                     viewport_width),
                     HistMoveOf("move_left", shift, Cur))

\* KeyCode::Right, with or without Shift
KeyRight ==
    /\ CanMove
    /\ \E shift \in BOOLEAN :
         CommitOther(update_viewport(move_right(Cur, viewport_width, shift),
                                     viewport_width),
                     HistMoveOf("move_right", shift, Cur))

\* KeyCode::Up, with or without Shift
KeyUp ==
    /\ CanMove
    /\ \E shift \in BOOLEAN :
         CommitOther(update_viewport(move_up(Cur, viewport_width, shift),
                                     viewport_width),
                     HistMoveOf("move_up", shift, Cur))

\* KeyCode::Down, with or without Shift
KeyDown ==
    /\ CanMove
    /\ \E shift \in BOOLEAN :
         CommitOther(update_viewport(move_down(Cur, viewport_width, shift),
                                     viewport_width),
                     HistMoveOf("move_down", shift, Cur))

\* the column handle_click uses on a VisualLine
ActualCol(vline, click_col) ==
    IF vline.is_continuation THEN Max(click_col, vline.indent) ELSE click_col

\* the body of handle_click on a row that holds a VisualLine
ClickOnLine(e, new_pos, actual_col, shift_held) ==
    [e EXCEPT !.selection_anchor = IF shift_held
                                   THEN (IF @ = None THEN Some(e.caret) ELSE @)
                                   ELSE None,
              !.caret = new_pos,
              !.preferred_col = actual_col]

\* Editor::handle_click; click_row and click_col are the clicked cell moved
\* by viewport_offset
handle_click(e, click_row, click_col, shift_held) ==
    IF /\ click_row >= virtual_lines
       /\ click_row < Len(e.visual_lines) - virtual_lines
       /\ e.visual_lines[click_row + 1] /= None
    THEN ClickOnLine(e,
                     visual_to_byte(e, click_row,
                                    ActualCol(e.visual_lines[click_row + 1][1], click_col)),
                     ActualCol(e.visual_lines[click_row + 1][1], click_col),
                     shift_held)
    ELSE e

\* `if !shift_held { editor.selection_anchor = Some(editor.caret) }` of the
\* mouse-down arm
AnchorAtClick(e, shift_held) ==
    IF shift_held THEN e ELSE [e EXCEPT !.selection_anchor = Some(e.caret)]

\* MouseEventKind::Down(MouseButton::Left) in AppState::Editing
MouseDown(click_row, click_col) ==
    /\ CanMove
    /\ \E shift_held \in BOOLEAN :
         CommitOther(AnchorAtClick(handle_click(ensure_visual_lines(Cur, viewport_width),
                                                click_row, click_col, shift_held),
                                   shift_held),
                     HistMoveOf("handle_click", shift_held, Cur))

\* terminal.draw(draw_ui) at the top of run_app's loop
Draw ==
    /\ pc = "idle" /\ ~panicked /\ ~visual_lines_valid
    /\ Set(update_viewport(ensure_visual_lines(Cur, viewport_width), viewport_width))
    /\ UNCHANGED << viewport_width, pc, ra, h >>

\* more than one second passes while event::read() waits for the next event
Pause ==
    /\ Idle
    /\ last_edit_time = "Recent"
    /\ last_edit_time' = "Old"
    /\ UNCHANGED << rope, caret, selection_anchor, undo_stack, redo_stack,
                    current_group, modified, preferred_col, word_wrap,
                    viewport_width, visual_lines, visual_lines_valid, find_matches,
                    current_match_index, app_state, filename, panicked, pc, ra, h >>

NoReplaceAll == [query |-> << >>, replacement |-> << >>]

\* the file name run_app leaves for a start with buffer s: none when no file
\* was named on the command line
NameOf(s) == IF s = << >> THEN None ELSE Some(<< "f" >>)

\* Editor::new, then load_file of the file named on the command line, if any;
\* name is the file name run_app has set
InitEditor(s, name, width, max_edits, max_moves) ==
    /\ rope = s
    /\ filename = name
    /\ caret = 0
    /\ selection_anchor = None
    /\ undo_stack = << >>
    /\ redo_stack = << >>
    /\ current_group = None
    /\ last_edit_time = "None"
    /\ modified = FALSE
    /\ preferred_col = 0
    /\ word_wrap = TRUE
    /\ viewport_width = width
    /\ visual_lines = << >>
    /\ visual_lines_valid = FALSE
    /\ find_matches = << >>
    /\ current_match_index = None
    /\ app_state = Editing
    /\ panicked = FALSE
    /\ pc = "idle"
    /\ ra = NoReplaceAll
    /\ h = InitHist(s, max_edits, max_moves)

Init == \E s \in InitRopes, width \in EditWidths : InitEditor(s, NameOf(s), width, MaxEdits, MaxMoves)

Next ==
    \/ Draw
    \/ \E c \in TypeChars : KeyChar(c)
    \/ KeyEnter
    \/ KeyBackspace
    \/ KeyDelete
    \/ KeyTab
    \/ KeyBackTab
    \/ KeyCtrlC
    \/ KeyCtrlX
    \/ KeyCtrlV
    \/ KeyCtrlZ
    \/ KeyCtrlY
    \/ KeyCtrlA
    \/ KeyLeft
    \/ KeyRight
    \/ Pause

Spec == Init /\ [][Next]_vars

(***************************************************************************)
(* The layout specification: a loaded file, the terminal resized and word  *)
(* wrap toggled at will, the frame drawn in between.                       *)
(***************************************************************************)
\* the longest buffer drawn from all sequences of LayoutChars
MaxLayoutLen == 4

\* the widest terminal; the widths are 0 .. MaxWidth
MaxWidth == 4

LayoutChars == {"a", " ", "-", "W", "\n"}

\* longer buffers with list markers, a wide character and wrap points
LongRopes ==
    { <<"-", " ", "a", "a", " ", "W", "a">>,
      <<"a", ".", " ", "a", "-", "a", "\n", " ", "a", " ", " ", "W">>,
      <<" ", " ", "a", "a", "a", "\n", "W", "W", "/", "a">>,
      <<"a", " ", " ", "a", "\n", " ", " ", "W">> }

LayoutRopes ==
    UNION { [1..n -> LayoutChars] : n \in 0..MaxLayoutLen } \cup LongRopes

LayoutWidths == 0..MaxWidth

\* Ctrl+W
KeyCtrlW ==
    /\ InEditing
    /\ Set(invalidate_visual_lines([Cur EXCEPT !.word_wrap = ~word_wrap]))
    /\ UNCHANGED << viewport_width, pc, ra, h >>

\* Event::Resize to width w
Resize(w) ==
    /\ Idle
    /\ w /= viewport_width
    /\ viewport_width' = w
    /\ Set(update_viewport(invalidate_visual_lines(Cur), w))
    /\ UNCHANGED << pc, ra, h >>

InitLayout == \E s \in LayoutRopes, width \in LayoutWidths : InitEditor(s, NameOf(s), width, 0, 0)

NextLayout ==
    \/ Draw
    \/ KeyCtrlW
    \/ \E w \in LayoutWidths : Resize(w)

SpecLayout == InitLayout /\ [][NextLayout]_vars

(***************************************************************************)
(* The undo specification: typing and backspace only, with undo, redo and  *)
(* pauses, so that a longer history fits.                                  *)
(***************************************************************************)
\* how many commands that record edits one behaviour of this specification holds
MaxUndoEdits == 4

InitUndo == \E s \in InitRopes, width \in EditWidths : InitEditor(s, NameOf(s), width, MaxUndoEdits, 0)

NextUndo ==
    \/ Draw
    \/ \E c \in TypeChars : KeyChar(c)
    \/ KeyBackspace
    \/ KeyCtrlZ
    \/ KeyCtrlY
    \/ Pause

SpecUndo == InitUndo /\ [][NextUndo]_vars

(***************************************************************************)
(* The find/replace specification: a loaded file, the find/replace bar     *)
(* opened with Ctrl+F, a query and a replacement typed, replace-all run.   *)
(***************************************************************************)
\* the longest buffer drawn from all sequences of FindChars
MaxFindLen == 3

\* the longest query and the longest replacement typed into the bar
MaxQueryLen == 2
MaxReplaceLen == 2

\* how many turns of replace_all's loop are followed
MaxTurns == 4

\* how many replace_all calls that enter the loop one behaviour holds
MaxReplaceAlls == 1

FindChars == {"a", "b"}

\* longer buffers, one with a multi-byte character and a line break
LongFindRopes == { <<"a", "a", "b", "b">>, <<"W", "a", "b", "\n", "a", "b">> }

FindRopes == UNION { [1..n -> FindChars] : n \in 0..MaxFindLen } \cup LongFindRopes

FindWidths == {4}

\* the loop of run_app is at event::read() and takes the AppState::Prompting arm
\* with the find/replace bar
InPrompt ==
    /\ Idle
    /\ app_state.state = "Prompting"
    /\ app_state.prompt.prompt_type = "FindReplace"

\* the field of the bar that has the focus
ActiveField == app_state.prompt.active_field

\* the editor with its prompt replaced
WithPrompt(e, prompt) == [e EXCEPT !.app_state = Prompting(prompt)]

\* the update_find_matches the Char, Backspace and Delete arms run when the
\* Find field has the focus
FindIfFindField(e) ==
    IF e.app_state.prompt.active_field = "Find"
    THEN update_find_matches(e, e.app_state.prompt.input)
    ELSE e

\* the history after a handler that ended with update_find_matches(query) on e0
HistFind(e0, query) ==
    [h EXCEPT !.find = Some(query), !.pre_find = FindSnap(e0), !.seek = NoSeek]

\* the history after the Char and Backspace arms took e0 to e1
HistPromptEdit(e0, e1) ==
    IF e1.app_state.prompt.active_field = "Find"
    THEN HistFind(e0, e1.app_state.prompt.input)
    ELSE h

\* Ctrl+F in AppState::Editing
KeyCtrlF ==
    /\ InEditing
    /\ Set(WithPrompt(Cur, new_find_replace))
    /\ h' = HistOther(h.phase)
    /\ UNCHANGED << viewport_width, pc, ra >>

\* the history after find_next ran on e0
HistNext(e0) ==
    [h EXCEPT !.find = None, !.pre_find = NoFindSnap,
              !.seek = [NoSeek EXCEPT
                           !.cmd = "next", !.from = e0.current_match_index,
                           !.base = IF h.seek.cmd = "next"
                                       /\ h.seek.run < Len(e0.find_matches)
                                    THEN h.seek.base ELSE e0.current_match_index,
                           !.run = IF h.seek.cmd = "next"
                                      /\ h.seek.run < Len(e0.find_matches)
                                   THEN h.seek.run + 1 ELSE 1]]

\* the history after find_previous ran on e0
HistPrevious(e0) ==
    [h EXCEPT !.find = None, !.pre_find = NoFindSnap,
              !.seek = [NoSeek EXCEPT
                           !.cmd = "prev", !.from = e0.current_match_index,
                           !.undone = IF h.seek.cmd = "next" THEN h.seek.from
                                      ELSE None]]

\* Ctrl+F in the bar (Ctrl+F without Shift while the buffer has the focus)
FindNext ==
    /\ InPrompt
    /\ CommitOther(update_viewport(find_next(Cur), viewport_width), HistNext(Cur))

\* Ctrl+Alt+F in the bar (Ctrl+Shift+F while the buffer has the focus)
FindPrevious ==
    /\ InPrompt
    /\ CommitOther(update_viewport(find_previous(Cur), viewport_width),
                   HistPrevious(Cur))

\* the history after replace_current took e0 to e1
HistReplaceCurrent(e0, e1) ==
    [HistOther("mixed")
        EXCEPT !.find = None, !.pre_find = NoFindSnap,
               !.n_edits = IF e1.rec /= << >> THEN @ + 1 ELSE @,
               !.seek = IF e1.rec = << >> THEN NoSeek
                        ELSE [NoSeek EXCEPT
                                 !.cmd = "replace_current",
                                 !.from = e0.current_match_index,
                                 !.pre = FindSnap(e0),
                                 !.query = e0.app_state.prompt.input,
                                 !.replacement = e0.app_state.prompt.replace_input]]

\* Ctrl+R in the bar (Ctrl+H without Shift while the buffer has the focus)
ReplaceCurrent ==
    /\ InPrompt
    /\ h.n_edits < h.max_edits
    /\ CommitOther(update_viewport(replace_current(Cur, app_state.prompt.replace_input,
                                                   viewport_width),
                                   viewport_width),
                   HistReplaceCurrent(Cur, replace_current(Cur,
                                                           app_state.prompt.replace_input,
                                                           viewport_width)))

\* the history after undo and refresh_find_matches_if_active in the bar
HistPromptUndo(e1) ==
    IF app_state.prompt.input /= << >>
    THEN [HistUndo EXCEPT !.find = Some(app_state.prompt.input),
                          !.pre_find = FindSnap(e1)]
    ELSE [HistUndo EXCEPT !.find = None, !.pre_find = NoFindSnap]

\* Ctrl+Z in the bar, whichever field has the focus
PromptUndo ==
    /\ InPrompt
    /\ CommitOther(update_viewport(refresh_find_matches_if_active(undo(Cur)),
                                   viewport_width),
                   HistPromptUndo(undo(Cur)))

\* whether the focused field of the bar takes one more char
FieldHasRoom ==
    \/ ActiveField = "Find" /\ Len(app_state.prompt.input) < MaxQueryLen
    \/ ActiveField = "Replace" /\ Len(app_state.prompt.replace_input) < MaxReplaceLen

\* KeyCode::Char(ch) while the Find or the Replace field has the focus
PromptChar(ch) ==
    /\ InPrompt
    /\ FieldHasRoom
    /\ Set(FindIfFindField(WithPrompt(Cur, PromptInsertChar(app_state.prompt, ch))))
    /\ h' = HistPromptEdit(Cur, WithPrompt(Cur, PromptInsertChar(app_state.prompt, ch)))
    /\ UNCHANGED << viewport_width, pc, ra >>

\* KeyCode::Backspace while the Find or the Replace field has the focus
PromptBackspace ==
    /\ InPrompt
    /\ ActiveField /= "Buffer"
    /\ Set(FindIfFindField(WithPrompt(Cur, PromptBackspaceChar(app_state.prompt))))
    /\ h' = HistPromptEdit(Cur, WithPrompt(Cur, PromptBackspaceChar(app_state.prompt)))
    /\ UNCHANGED << viewport_width, pc, ra >>

\* KeyCode::Tab in the bar, whichever field has the focus
PromptTab ==
    /\ InPrompt
    /\ Set(WithPrompt(Cur, [app_state.prompt EXCEPT !.active_field = NextField(@)]))
    /\ UNCHANGED << viewport_width, pc, ra, h >>

\* Prompt::paste with no selection in the prompt: the text read from the
\* clipboard goes into the input of a SaveAs prompt or into the active field
\* of a FindReplace prompt; got is None when the read failed
PromptPasteText(prompt, got) ==
    IF got = None \/ prompt.prompt_type = "ConfirmSave" THEN prompt
    ELSE IF prompt.prompt_type = "SaveAs" \/ prompt.active_field = "Find"
    THEN [prompt EXCEPT !.input = RopeInsert(@, ByteToChar(@, prompt.cursor_pos), got[1]),
                        !.cursor_pos = @ + ByteLen(got[1])]
    ELSE IF prompt.active_field = "Replace"
    THEN [prompt EXCEPT !.replace_input =
                            RopeInsert(@, ByteToChar(@, prompt.replace_cursor_pos), got[1]),
                        !.replace_cursor_pos = @ + ByteLen(got[1])]
    ELSE prompt

\* Ctrl+V while the Find or the Replace field has the focus
PromptPaste(got) ==
    /\ InPrompt
    /\ ActiveField /= "Buffer"
    /\ Set(WithPrompt(Cur, PromptPasteText(app_state.prompt, got)))
    /\ h' = [h EXCEPT !.find = None, !.pre_find = NoFindSnap, !.seek = NoSeek]
    /\ UNCHANGED << viewport_width, pc, ra >>

\* the KeyCode::Char(c) arm of handle_editor_key
EditorKeyChar(e, c, width) ==
    update_viewport(refresh_find_matches_if_active(insert_char(e, c, width)), width)

\* KeyCode::Char(c) while the buffer has the focus of the bar
BufferChar(c) ==
    /\ InPrompt
    /\ ActiveField = "Buffer"
    /\ h.n_edits < h.max_edits
    /\ Commit("insert_char", TRUE, Cur, EditorKeyChar(Cur, c, viewport_width))

\* KeyCode::Enter while the Find or the Replace field has the focus
PromptEnter ==
    /\ InPrompt
    /\ ActiveField /= "Buffer"
    /\ Set(update_find_matches(Cur, app_state.prompt.input))
    /\ h' = HistFind(Cur, app_state.prompt.input)
    /\ UNCHANGED << viewport_width, pc, ra >>

\* KeyCode::Esc in the bar, whichever field has the focus
PromptEsc ==
    /\ InPrompt
    /\ Set([clear_find_matches(Cur) EXCEPT !.app_state = Editing])
    /\ h' = [h EXCEPT !.find = None, !.pre_find = NoFindSnap, !.seek = NoSeek]
    /\ UNCHANGED << viewport_width, pc, ra >>

\* the history when replace_all enters its loop
HistReplaceAll(e0, query, replacement) ==
    [h EXCEPT !.find = None, !.pre_find = NoFindSnap, !.seek = NoSeek,
              !.ra = [orig |-> e0.rope, query |-> query, replacement |-> replacement,
                      count |-> 0, done |-> FALSE, calls |-> h.ra.calls + 1]]

\* Ctrl+Alt+R while the Find or the Replace field has the focus, Ctrl+Shift+H
\* while the buffer has it, with an empty query: replace_all returns at once
ReplaceAllEmptyQuery ==
    /\ InPrompt
    /\ app_state.prompt.input = << >>
    /\ Set(AfterReplaceAll(Cur, viewport_width))
    /\ h' = [HistOther(h.phase) EXCEPT !.find = None, !.pre_find = NoFindSnap, !.cmd = "replace_all",
                                       !.pre = Snap(Cur)]
    /\ UNCHANGED << viewport_width, pc, ra >>

\* the same keys with a query: replace_all runs up to its loop
ReplaceAllCall ==
    /\ InPrompt
    /\ app_state.prompt.input /= << >>
    /\ h.ra.calls < MaxReplaceAlls
    /\ Set(ReplaceAllBegin(Cur, app_state.prompt.input))
    /\ pc' = "replace_all"
    /\ ra' = [query |-> app_state.prompt.input, replacement |-> app_state.prompt.replace_input]
    /\ h' = HistReplaceAll(Cur, app_state.prompt.input, app_state.prompt.replace_input)
    /\ UNCHANGED viewport_width

\* one turn of replace_all's loop
ReplaceAllTurn ==
    /\ pc = "replace_all" /\ ~panicked
    /\ find_matches /= << >>
    /\ h.ra.count < MaxTurns
    /\ Set(ReplaceFirst(Cur, ra.query, ra.replacement, viewport_width))
    /\ h' = [h EXCEPT !.ra.count = @ + 1]
    /\ UNCHANGED << viewport_width, pc, ra >>

\* replace_all leaves its loop and returns; the handler finishes
ReplaceAllReturn ==
    /\ pc = "replace_all" /\ ~panicked
    /\ find_matches = << >>
    /\ Set(AfterReplaceAll(ReplaceAllFinish(Cur), viewport_width))
    /\ pc' = "idle"
    /\ ra' = NoReplaceAll
    /\ h' = [h EXCEPT !.ra.done = TRUE,
                      !.seek = IF h.ra.count = 0 THEN NoSeek
                               ELSE [NoSeek EXCEPT !.cmd = "replace_all",
                                                   !.pre.rope = h.ra.orig,
                                                   !.query = h.ra.query,
                                                   !.replacement = h.ra.replacement]]
    /\ UNCHANGED viewport_width

InitFind == \E s \in FindRopes, width \in FindWidths : InitEditor(s, NameOf(s), width, 0, 0)

NextFind ==
    \/ Draw
    \/ KeyCtrlF
    \/ \E ch \in FindChars : PromptChar(ch)
    \/ PromptBackspace
    \/ PromptTab
    \/ PromptEnter
    \/ PromptEsc
    \/ ReplaceAllEmptyQuery
    \/ ReplaceAllCall
    \/ ReplaceAllTurn
    \/ ReplaceAllReturn

SpecFind == InitFind /\ [][NextFind]_vars

(***************************************************************************)
(* Files.  fs::write and fs::read_to_string succeed or fail: io_ok.  A     *)
(* path is the string the prompt or the command line gave.  The current    *)
(* directory is read only while no file is named, and load_file names      *)
(* one, so it stays the directory the editor was started in.               *)
(***************************************************************************)
\* env::current_dir() at Editor::new
current_dir == << "d" >>

\* Editor::save
save(e, io_ok) ==
    IF e.filename /= None
    THEN IF io_ok THEN [e EXCEPT !.modified = FALSE] ELSE e
    ELSE e

\* whether Editor::save returns Ok
save_is_ok(e, io_ok) == e.filename /= None /\ io_ok

\* save_as naming the file before fs::write returned
save_as_naming(e, path, io_ok) ==
    IF io_ok THEN [e EXCEPT !.filename = Some(path), !.modified = FALSE]
    ELSE [e EXCEPT !.filename = Some(path)]

\* Editor::save_as
save_as(e, path, io_ok) ==
    IF io_ok THEN [e EXCEPT !.filename = Some(path), !.modified = FALSE] ELSE e

\* Editor::load_file reading content from path
load_file(e, path, content, io_ok) ==
    IF io_ok
    THEN invalidate_visual_lines(
             [e EXCEPT !.rope = content, !.filename = Some(path), !.caret = 0,
                       !.selection_anchor = None, !.preferred_col = 0,
                       !.modified = FALSE, !.undo_stack = << >>,
                       !.redo_stack = << >>])
    ELSE e

\* Editor::get_save_path_suggestion
get_save_path_suggestion(e) ==
    IF e.filename /= None THEN e.filename[1] ELSE Append(current_dir, "/")

\* Prompt::new_save_as
new_save_as(default_path) ==
    [prompt_type |-> "SaveAs", input |-> default_path,
     cursor_pos |-> ByteLen(default_path), replace_input |-> << >>,
     replace_cursor_pos |-> 0, active_field |-> "Find"]

\* Prompt::new_confirm_save
new_confirm_save ==
    [prompt_type |-> "ConfirmSave", input |-> << >>, cursor_pos |-> 0,
     replace_input |-> << >>, replace_cursor_pos |-> 0, active_field |-> "Find"]

(***************************************************************************)
(* The file specification: typing, undo and redo, the save and quit keys   *)
(* with their prompts, and load_file called on the editor in use.          *)
(***************************************************************************)
\* the edits of a run
MaxFileEdits == 2
\* the bytes of a path typed into the Save As prompt
MaxPathLen == 2
PathChars == {"g"}
\* the file load_file reads
LoadPath == << "g" >>
LoadContents == { << >>, << "b" >> }

\* the loop of run_app is at event::read() with a prompt of type t open
InPromptOf(t) ==
    Idle /\ app_state.state = "Prompting" /\ app_state.prompt.prompt_type = t

\* Ctrl+Q: the confirm prompt when modified, else run_app returns
KeyCtrlQ ==
    /\ InEditing
    /\ IF modified
       THEN Set([Cur EXCEPT !.app_state = Prompting(new_confirm_save)]) /\ pc' = pc
       ELSE Set(Cur) /\ pc' = "returned"
    /\ h' = HistOther("mixed")
    /\ UNCHANGED << viewport_width, ra >>

\* the Ctrl+S arm without Shift or Alt
CtrlS(e, io_ok) ==
    IF e.filename /= None THEN save(e, io_ok)
    ELSE [e EXCEPT !.app_state = Prompting(new_save_as(get_save_path_suggestion(e)))]

\* Ctrl+S
KeyCtrlS ==
    /\ InEditing
    /\ \E io_ok \in BOOLEAN :
         CommitOther(CtrlS(Cur, io_ok),
                     IF filename /= None
                     THEN HistIo("save", ~io_ok, save_is_ok(Cur, io_ok), Cur, << >>)
                     ELSE HistOther("mixed"))

\* Ctrl+Shift+S, Ctrl+Alt+S and F12
KeySaveAs ==
    /\ InEditing
    /\ CommitOther([Cur EXCEPT !.app_state =
                                   Prompting(new_save_as(get_save_path_suggestion(Cur)))],
                   HistOther("mixed"))

\* KeyCode::Char(ch) in the Save As prompt
SaveAsChar(ch) ==
    /\ InPromptOf("SaveAs")
    /\ ByteLen(app_state.prompt.input) + Utf8Len(ch) <= MaxPathLen
    /\ CommitOther(WithPrompt(Cur, PromptInsertChar(app_state.prompt, ch)),
                   HistOther("mixed"))

\* KeyCode::Backspace in the Save As prompt
SaveAsBackspace ==
    /\ InPromptOf("SaveAs")
    /\ CommitOther(WithPrompt(Cur, PromptBackspaceChar(app_state.prompt)),
                   HistOther("mixed"))

\* the Enter arm of the Save As prompt
SaveAsEnterArm(e, io_ok) ==
    IF e.app_state.prompt.input /= << >>
    THEN [clear_find_matches(save_as(e, e.app_state.prompt.input, io_ok))
             EXCEPT !.app_state = Editing]
    ELSE e

\* KeyCode::Enter in the Save As prompt
SaveAsEnter ==
    /\ InPromptOf("SaveAs")
    /\ \E io_ok \in BOOLEAN :
         CommitOther(SaveAsEnterArm(Cur, io_ok),
                     IF app_state.prompt.input /= << >>
                     THEN HistIo("save_as", ~io_ok, io_ok, Cur, << >>)
                     ELSE HistOther("mixed"))

\* KeyCode::Esc in the Save As or the confirm prompt
SavePromptEsc ==
    /\ InPromptOf("SaveAs") \/ InPromptOf("ConfirmSave")
    /\ CommitOther([Cur EXCEPT !.app_state = Editing], HistOther("mixed"))

\* the 'y' arm of the confirm prompt
ConfirmYes(e, io_ok) ==
    IF e.filename /= None
    THEN [save(e, io_ok) EXCEPT !.app_state = Exiting]
    ELSE [e EXCEPT !.app_state = Prompting(new_save_as(get_save_path_suggestion(e)))]

\* KeyCode::Char('y') in the confirm prompt, either case
ConfirmSaveYes ==
    /\ InPromptOf("ConfirmSave")
    /\ \E io_ok \in BOOLEAN :
         CommitOther(ConfirmYes(Cur, io_ok),
                     IF filename /= None
                     THEN HistIo("save", ~io_ok, save_is_ok(Cur, io_ok), Cur, << >>)
                     ELSE HistOther("mixed"))

\* KeyCode::Char('n') in the confirm prompt
ConfirmSaveNo ==
    /\ InPromptOf("ConfirmSave")
    /\ CommitOther([Cur EXCEPT !.app_state = Exiting], HistOther("mixed"))

\* KeyCode::Char('c') in the confirm prompt
ConfirmSaveCancel ==
    /\ InPromptOf("ConfirmSave")
    /\ CommitOther([Cur EXCEPT !.app_state = Editing], HistOther("mixed"))

\* Editor::load_file called on the editor in use, as a caller of the method
\* may; run_app itself calls it once, before the first event
LoadFile ==
    /\ InEditing
    /\ \E content \in LoadContents, io_ok \in BOOLEAN :
         CommitOther(load_file(Cur, LoadPath, content, io_ok),
                     HistIo("load_file", ~io_ok, io_ok, Cur, content))

InitFile ==
    \E s \in InitRopes, width \in EditWidths :
        InitEditor(s, NameOf(s), width, MaxFileEdits, 0)

NextFile ==
    \/ Draw
    \/ \E c \in TypeChars : KeyChar(c)
    \/ KeyCtrlZ
    \/ KeyCtrlY
    \/ Pause
    \/ KeyCtrlQ
    \/ KeyCtrlS
    \/ KeySaveAs
    \/ \E ch \in PathChars : SaveAsChar(ch)
    \/ SaveAsBackspace
    \/ SaveAsEnter
    \/ SavePromptEsc
    \/ ConfirmSaveYes
    \/ ConfirmSaveNo
    \/ ConfirmSaveCancel
    \/ LoadFile

SpecFile == InitFile /\ [][NextFile]_vars

(***************************************************************************)
(* The cursor specification: the arrow keys with and without Shift and     *)
(* Ctrl+A on a loaded file, after at most one typed char.                  *)
(***************************************************************************)
\* the cursor commands and the recorded edits of a run
MaxMoveSteps == 4
MaxMoveEdits == 1
\* a file of two lines with a wide char, the first line wrapped at width 4
MoveRopes == InitRopes \cup { <<"a", "W", "b", "a", "b", "\n", "a", "b">> }

InitMove ==
    \E s \in MoveRopes, width \in EditWidths :
        InitEditor(s, NameOf(s), width, MaxMoveEdits, MaxMoveSteps)

NextMove ==
    \/ Draw
    \/ \E c \in TypeChars : KeyChar(c)
    \/ KeyCtrlA
    \/ KeyLeft
    \/ KeyRight
    \/ KeyUp
    \/ KeyDown

SpecMove == InitMove /\ [][NextMove]_vars

(***************************************************************************)
(* The specification of the commands that find nothing to do: typing,      *)
(* deleting, dedent, undo and redo, and the find/replace bar opened,       *)
(* closed and asked to replace all while its query is empty.               *)
(***************************************************************************)
\* the recorded edits of a run
MaxNoopEdits == 2

InitNoop ==
    \E s \in InitRopes, width \in EditWidths :
        InitEditor(s, NameOf(s), width, MaxNoopEdits, 0)

NextNoop ==
    \/ Draw
    \/ \E c \in TypeChars : KeyChar(c)
    \/ KeyBackspace
    \/ KeyDelete
    \/ KeyBackTab
    \/ KeyCtrlZ
    \/ KeyCtrlY
    \/ Pause
    \/ KeyCtrlF
    \/ ReplaceAllEmptyQuery
    \/ PromptEsc

SpecNoop == InitNoop /\ [][NextNoop]_vars

(***************************************************************************)
(* Undo and redo: properties of the editing specification.                 *)
(***************************************************************************)
(***************************************************************************)
(* The replace specification: a char typed, the find/replace bar opened, a *)
(* query and a replacement typed, the matches stepped through, replaced    *)
(* one by one or all at once, and the replacement undone.                  *)
(***************************************************************************)
(***************************************************************************)
(* The seek specification: the find/replace bar opened, a query typed, and *)
(* the matches stepped through forwards and backwards.                     *)
(***************************************************************************)
SeekRopes == { <<"a", "a", "a">>, <<"W", "a", "b", "\n", "a", "b">>, <<"b">> }

InitSeek ==
    \E s \in SeekRopes, width \in FindWidths : InitEditor(s, NameOf(s), width, 0, 0)

NextSeek ==
    \/ Draw
    \/ KeyCtrlF
    \/ \E ch \in FindChars : PromptChar(ch)
    \/ PromptBackspace
    \/ PromptTab
    \/ FindNext
    \/ FindPrevious

SpecSeek == InitSeek /\ [][NextSeek]_vars

\* how many commands that record edits one behaviour holds
MaxReplaceEdits == 2

ReplaceRopes == { <<"W", "a", "a", "a">> }

\* the longest query and the longest replacement typed into the bar here
MaxReplaceQueryLen == 1
MaxReplaceTextLen == 2

\* KeyCode::Char(ch) in the bar while the focused field is within these bounds
ReplaceBarChar(ch) ==
    /\ Len(app_state.prompt.input) + (IF ActiveField = "Find" THEN 1 ELSE 0)
           <= MaxReplaceQueryLen
    /\ Len(app_state.prompt.replace_input) + (IF ActiveField = "Replace" THEN 1 ELSE 0)
           <= MaxReplaceTextLen
    /\ PromptChar(ch)

InitReplace ==
    \E s \in ReplaceRopes, width \in FindWidths :
        InitEditor(s, NameOf(s), width, MaxReplaceEdits, 0)

NextReplace ==
    \/ Draw
    \/ KeyChar("a")
    \/ KeyCtrlZ
    \/ Pause
    \/ KeyCtrlF
    \/ \E ch \in FindChars : ReplaceBarChar(ch)
    \/ PromptTab
    \/ ReplaceCurrent
    \/ PromptUndo
    \/ ReplaceAllCall
    \/ ReplaceAllTurn
    \/ ReplaceAllReturn

SpecReplace == InitReplace /\ [][NextReplace]_vars

(***************************************************************************)
(* The cache specification: edits, undo, redo, a file loaded, word wrap    *)
(* toggled, the terminal resized and the cursor moved, in any order.       *)
(***************************************************************************)
\* how many commands that record edits and how many cursor commands one
\* behaviour holds
MaxCacheEdits == 1
MaxCacheMoves == 1

CacheRopes == { <<"a", "a", " ", "W", "\n", "a">> }

CacheWidths == {3, 6}

InitCache ==
    \E s \in CacheRopes, width \in CacheWidths :
        InitEditor(s, NameOf(s), width, MaxCacheEdits, MaxCacheMoves)

NextCache ==
    \/ Draw
    \/ \E c \in TypeChars : KeyChar(c)
    \/ KeyBackspace
    \/ KeyCtrlZ
    \/ KeyCtrlY
    \/ KeyCtrlW
    \/ \E w \in CacheWidths : Resize(w)
    \/ LoadFile
    \/ KeyLeft
    \/ KeyRight
    \/ KeyUp
    \/ KeyDown

SpecCache == InitCache /\ [][NextCache]_vars

\* C1: after insert and delete edits (insert_char, paste, delete, backspace,
\* cut and the selection deletes inside them) with cursor moves and pauses of
\* any length between them, undo repeated until the undo stack is empty has
\* returned the buffer to its original content and the caret to the position
\* it had before the first edit.
C1_UndoAllRestores ==
    (h.phase = "undoing" /\ undo_stack = << >>)
        => (rope = h.orig /\ caret = h.caret0)

\* C1's case: two groups were undone, one of them of two ops, on a loaded file
C1_Witness ==
    /\ h.phase = "undoing"
    /\ undo_stack = << >>
    /\ Len(redo_stack) = 2
    /\ \E i \in 1..2 : Len(redo_stack[i]) = 2
    /\ h.orig /= << >>
    /\ h.caret0 > 0

\* C2: when an edit command's ops ended the open group, undo right after it
\* and redo right after that reproduce the buffer and the caret that held
\* right after the command.
C2_UndoRedoRoundTrip ==
    (h.last = "redo" /\ h.recorded)
        => (rope = h.post.rope /\ caret = h.post.caret)

\* C3: an edit command's ops start a new group when there was no edit before
\* or more than a second has passed since the last one, and otherwise are
\* appended to the open group.
C3_GroupingRule ==
    h.last = "edit"
        => IF h.timing.last_edit_time /= "Recent"
           THEN current_group = Some(h.rec)
           ELSE /\ h.recorded
                /\ Len(current_group[1]) > Len(h.rec)
                /\ Len(undo_stack) = h.timing.groups

\* the buffer s with four spaces in front of lines l and l + 1
IndentedTwo(s, l) ==
    RopeInsert(RopeInsert(s, LineToChar(s, l + 1), FourSpaces),
               LineToChar(s, l), FourSpaces)

\* C4: indent with a selection over two lines puts four spaces in front of
\* both lines, and one undo right after it restores the buffer, the caret and
\* the selection anchor that held before the indent.
C4_IndentSingleUndoUnit ==
    /\ (h.last = "edit" /\ h.cmd = "indent" /\ h.sel_lines = 2)
          => rope = IndentedTwo(h.pre.rope,
                                LineOfByte(h.pre.rope, Min(h.pre.caret, h.pre.anchor[1])))
    /\ (h.last = "undo" /\ h.cmd = "indent" /\ h.sel_lines = 2)
          => /\ rope = h.pre.rope
             /\ caret = h.pre.caret
             /\ selection_anchor = h.pre.anchor

(***************************************************************************)
(* Layout: properties of the layout specification.                         *)
(***************************************************************************)
\* the frame is drawn: visual_lines is what rebuild_visual_lines left
LayoutReady == visual_lines_valid /\ ~panicked

\* the rows of visual_lines that hold a VisualLine
ContentRows == {i \in 1..Len(visual_lines) : visual_lines[i] /= None}

\* the buffer text of row i
RowText(i) == ByteSlice(rope, visual_lines[i][1].start_byte, visual_lines[i][1].end_byte)

\* the byte offset of the c-th character of the buffer
ByteOf(c) == CharToByte(rope, c - 1)

\* the c-th character of the buffer lies in the byte range of row i
InRow(c, i) ==
    /\ visual_lines[i][1].start_byte <= ByteOf(c)
    /\ ByteOf(c) < visual_lines[i][1].end_byte

\* the characters of the buffer that no VisualLine holds
Uncovered == {c \in 1..Len(rope) : \A i \in ContentRows : ~InRow(c, i)}

\* the width left for the continuation rows of the line of the c-th character
ContinuationWidth(c) ==
    SaturatingSub(viewport_width,
                  calculate_indent(RopeLine(rope, CharToLine(rope, c - 1))))

\* the width available to row i
RowWidth(i) ==
    IF visual_lines[i][1].is_continuation
    THEN viewport_width - visual_lines[i][1].indent
    ELSE viewport_width

\* no row is wider than the width available to it, but for a row of one
\* character that is wider than that
RowsFit ==
    \A i \in ContentRows :
        \/ StrWidth(RowText(i)) <= RowWidth(i)
        \/ Len(RowText(i)) = 1 /\ CharWidth(RowText(i)[1]) > RowWidth(i)

\* C9, as stated: with word wrap on and a viewport of width 1 or more, no
\* row is wider than the width available to it, but for a row of one too wide
\* character, and no character wider than the width available to the
\* continuation rows of its line is left out of the rows.
C9_RowsFitNoneDropped ==
    (LayoutReady /\ word_wrap /\ viewport_width >= 1)
        => /\ RowsFit
           /\ \A c \in Uncovered : CharWidth(rope[c]) <= ContinuationWidth(c)

\* C9, amended: the same, but a character wider than the width available to
\* the continuation rows of its line is in a row only when that width is 1 or
\* more; when it is 0 wrap_line emits nothing after the first segment.
C9_RowsFit ==
    (LayoutReady /\ word_wrap /\ viewport_width >= 1)
        => /\ RowsFit
           /\ \A c \in Uncovered :
                  ContinuationWidth(c) >= 1 => CharWidth(rope[c]) <= ContinuationWidth(c)

\* C9's case: a continuation row of width 1 holds one wide character
C9_Witness ==
    /\ LayoutReady /\ word_wrap /\ viewport_width >= 1
    /\ \E i \in ContentRows :
          /\ visual_lines[i][1].is_continuation
          /\ visual_lines[i][1].indent >= 1
          /\ RowWidth(i) = 1
          /\ RowText(i) = <<"W">>

RECURSIVE ConcatRows(_)
\* the texts of rows i, i + 1, .. one after another
ConcatRows(i) ==
    IF i > Len(visual_lines) THEN << >>
    ELSE IF visual_lines[i] = None THEN ConcatRows(i + 1)
    ELSE RowText(i) \o ConcatRows(i + 1)

RECURSIVE JoinRows(_, _)
\* the texts of rows i, i + 1, .. with a newline between two of them
JoinRows(i, first) ==
    IF i > Len(visual_lines) THEN << >>
    ELSE IF visual_lines[i] = None THEN JoinRows(i + 1, first)
    ELSE (IF first THEN << >> ELSE << "\n" >>) \o RowText(i) \o JoinRows(i + 1, FALSE)

\* C10, as stated: the texts of the VisualLines, one after another, are the
\* buffer.
C10_ConcatenationIsBuffer ==
    LayoutReady => ConcatRows(1) = rope

\* the c-th character is a space that wrap_line skipped: only spaces lie
\* between the end of some row and it
SkippedSpace(c) ==
    /\ rope[c] = " "
    /\ \E i \in ContentRows :
          /\ visual_lines[i][1].end_byte <= ByteOf(c)
          /\ \A d \in 1..c : ByteOf(d) >= visual_lines[i][1].end_byte => rope[d] = " "

\* C10, amended: the VisualLines are in buffer order, inside the buffer and
\* do not overlap; none holds a newline; a character in none of them is a
\* newline, or with word wrap on a space skipped after a wrap point, or on a
\* line whose indent leaves no width for continuation rows; with word wrap off
\* the rows joined by newlines are the buffer.
C10_RowsPartitionBuffer ==
    LayoutReady
        => /\ \A i \in ContentRows :
                 /\ visual_lines[i][1].start_byte <= visual_lines[i][1].end_byte
                 /\ visual_lines[i][1].end_byte <= ByteLen(rope)
                 /\ \A j \in ContentRows :
                        i < j => visual_lines[i][1].end_byte <= visual_lines[j][1].start_byte
           /\ \A c \in 1..Len(rope) : c \notin Uncovered => rope[c] /= "\n"
           /\ \A c \in Uncovered :
                 \/ rope[c] = "\n"
                 \/ word_wrap /\ SkippedSpace(c)
                 \/ word_wrap /\ viewport_width >= 1 /\ ContinuationWidth(c) = 0
           /\ ~word_wrap => JoinRows(1, TRUE) = rope

\* C10's case: word wrap on, a continuation row, and outside the rows a
\* skipped space, a line break and a wide character on a line whose indent
\* leaves no width
C10_Witness ==
    /\ LayoutReady /\ word_wrap
    /\ \E i \in ContentRows : visual_lines[i][1].is_continuation
    /\ \E c \in Uncovered : rope[c] = " "
    /\ \E c \in Uncovered : rope[c] = "\n"
    /\ \E c \in Uncovered : rope[c] = "W"

(***************************************************************************)
(* Find and replace: properties of the find/replace specification.         *)
(***************************************************************************)
\* whether query and replacement have no character in common
NoSharedChars(query, replacement) ==
    \A i \in 1..Len(query), j \in 1..Len(replacement) : query[i] /= replacement[j]

\* whether text holds query as a substring
Contains(text, query) ==
    \E i \in 0..(Len(text) - Len(query)) : SubSeq(text, i + 1, i + Len(query)) = query

RECURSIVE ScanMatches(_, _, _)
\* the matches of query in text found from char index i on by a scan from
\* left to right that resumes after the end of each match
ScanMatches(text, query, i) ==
    IF i + Len(query) > Len(text) THEN << >>
    ELSE IF SubSeq(text, i + 1, i + Len(query)) = query
    THEN << <<CharToByte(text, i), CharToByte(text, i) + ByteLen(query)>> >>
         \o ScanMatches(text, query, i + Len(query))
    ELSE ScanMatches(text, query, i + 1)

RECURSIVE ReplaceScan(_, _, _, _)
\* text from char index i on, with every occurrence of query found by a scan
\* from left to right that resumes after each match's end replaced
ReplaceScan(text, query, replacement, i) ==
    IF i + Len(query) > Len(text) THEN SubSeq(text, i + 1, Len(text))
    ELSE IF SubSeq(text, i + 1, i + Len(query)) = query
    THEN replacement \o ReplaceScan(text, query, replacement, i + Len(query))
    ELSE <<text[i + 1]>> \o ReplaceScan(text, query, replacement, i + 1)

\* C5: when query and replacement share no characters, replace_all's loop
\* comes to its end within the turns followed, and when replace_all has
\* returned the buffer is the buffer it was called on with every left-to-right
\* non-overlapping occurrence of query replaced by replacement.
C5_ReplaceAllResult ==
    (h.ra.calls > 0 /\ NoSharedChars(h.ra.query, h.ra.replacement))
        => /\ pc = "replace_all" => (find_matches = << >> \/ h.ra.count < MaxTurns)
           /\ h.ra.done => rope = ReplaceScan(h.ra.orig, h.ra.query, h.ra.replacement, 0)

\* C6: when the replacement is not empty and does not contain the query,
\* replace_all never performs more replacements than there were
\* non-overlapping matches of query in the buffer when it was called.
C6_ReplaceAllBounded ==
    (h.ra.calls > 0 /\ h.ra.replacement /= << >>
     /\ ~Contains(h.ra.replacement, h.ra.query))
        => h.ra.count <= Len(ScanMatches(h.ra.orig, h.ra.query, 0))

\* C7: after update_find_matches with a non-empty query, find_matches is the
\* ordered list of the occurrences found scanning left to right and resuming
\* at each match's end, so that no two ranges overlap.
C7_MatchesDoNotOverlap ==
    (h.find /= None /\ h.find /= Some(<< >>))
        => find_matches = ScanMatches(rope, h.find[1], 0)

\* C8: after update_find_matches with the empty query the match list is empty
\* and there is no current match index, whatever the matches and the buffer
\* were before, and the buffer and the caret are what they were before.
C8_EmptyQueryClears ==
    h.find = Some(<< >>)
        => /\ find_matches = << >>
           /\ current_match_index = None
           /\ rope = h.pre_find.rope
           /\ caret = h.pre_find.caret

\* the empty query was set on a buffer that had matches, the caret inside it
C8_Witness ==
    /\ h.find = Some(<< >>)
    /\ h.pre_find.matches /= << >>
    /\ h.pre_find.caret > 0
    /\ find_matches = << >>
    /\ rope /= << >>

(***************************************************************************)
(* Redo after an edit: property of the undo specification.                 *)
(***************************************************************************)
\* C11: right after a command that recorded an edit the redo stack is empty,
\* and redo right after such a command changes nothing: buffer, caret,
\* selection, undo stack, redo stack, open group and modified flag are what
\* the edit left.
C11_EditClearsRedo ==
    /\ h.last = "edit" => redo_stack = << >>
    /\ h.last = "edit_redo" => Snap(Cur) = h.post

\* C11's case: two groups had been undone before the edit that redo follows
C11_Witness == h.last = "edit_redo" /\ h.timing.undone >= 2 /\ rope /= << >>

(***************************************************************************)
(* Files: properties of the file specification.                            *)
(***************************************************************************)
\* C12: a save, save_as or load_file whose file operation failed returned an
\* error, and one that returned an error left the buffer, caret, selection,
\* undo stack, redo stack, open group, file name and modified flag as they
\* were before the call.
C12_FailedIoChangesNothing ==
    h.io.op \in {"save", "save_as", "load_file"}
        => /\ h.io.failed => ~h.io.ok
           /\ ~h.io.ok => FileSnap(Cur) = h.io.pre

\* C12's case: save_as to another path failed on a modified, named buffer
\* with an open undo group
C12_Witness ==
    /\ h.io.op = "save_as" /\ ~h.io.ok
    /\ modified /\ current_group /= None
    /\ filename /= None /\ h.io.pre.filename = filename
    /\ app_state = Editing

\* C13: after a save or save_as that returned an error the editor is not
\* Exiting: it is in Editing or in a prompt, and the modified flag is what it
\* was before the attempt.
C13_FailedSaveStaysEditable ==
    (h.io.op \in {"save", "save_as"} /\ ~h.io.ok)
        => /\ app_state /= Exiting
           /\ modified = h.io.pre.snap.modified

\* C15: after a load_file that returned Ok, and after undo and redo called
\* right after it, the buffer is the content read; right after the load the
\* caret is 0, there is no selection and the undo stack and the redo stack
\* are empty.
C15_LoadResetsHistory ==
    (h.io.op = "load_file" /\ h.io.ok)
        => /\ rope = h.io.content
           /\ h.io.after = << >>
                => /\ caret = 0
                   /\ selection_anchor = None
                   /\ undo_stack = << >>
                   /\ redo_stack = << >>

(***************************************************************************)
(* The clipboard: property of the editing specification.                   *)
(***************************************************************************)
\* C14: a cut whose clipboard write failed returned false and left buffer,
\* caret, selection, undo stack, redo stack, open group and modified flag
\* as they were; so did every copy; so did a paste whose clipboard read
\* failed.
C14_ClipboardFailureChangesNothing ==
    /\ (h.io.op = "cut" /\ h.io.failed) => (~h.io.ok /\ Snap(Cur) = h.io.pre.snap)
    /\ h.io.op = "copy" => Snap(Cur) = h.io.pre.snap
    /\ (h.io.op = "paste" /\ h.io.failed) => Snap(Cur) = h.io.pre.snap

\* C14's case: a cut of a selected range whose clipboard write failed, after
\* an edit
C14_Witness ==
    /\ h.io.op = "cut" /\ h.io.failed
    /\ selection_anchor /= None /\ selection_anchor[1] /= caret
    /\ current_group /= None

(***************************************************************************)
(* Commands with nothing to do: property of the specification above.       *)
(***************************************************************************)
\* the last command was dedent without selection on a line with no leading
\* space, backspace at offset 0 without selection, delete at the end of the
\* buffer without selection, or replace_all with the empty query
NothingToDo ==
    /\ h.last \in {"edit", "other"}
    /\ \/ /\ h.cmd = "dedent"
          /\ h.pre.anchor = None
          /\ LeadingSpaces(RopeLine(h.pre.rope, LineOfByte(h.pre.rope, h.pre.caret)), 4) = 0
       \/ h.cmd = "backspace" /\ h.pre.anchor = None /\ h.pre.caret = 0
       \/ h.cmd = "delete" /\ h.pre.anchor = None /\ h.pre.caret = ByteLen(h.pre.rope)
       \/ h.cmd = "replace_all"

\* C16: each of these commands left buffer, caret, selection, undo stack,
\* open group, redo stack and modified flag as they were.
C16_NothingToDoChangesNothing == NothingToDo => Snap(Cur) = h.pre

\* C16's case: delete at the end of a buffer with an edit to undo
C16_Witness ==
    /\ NothingToDo /\ h.cmd = "delete"
    /\ current_group /= None /\ modified /\ rope /= << >>

(***************************************************************************)
(* Offsets: property of the editing specification.                         *)
(***************************************************************************)
\* whether byte offset b is within buffer s and on a char boundary
ValidOffset(s, b) == b >= 0 /\ b <= ByteLen(s) /\ IsBoundary(s, b)

\* C17: after every command the caret, and the selection anchor when there
\* is one, are offsets within the buffer and on char boundaries.
C17_OffsetsValid ==
    /\ ValidOffset(rope, caret)
    /\ selection_anchor /= None => ValidOffset(rope, selection_anchor[1])

(***************************************************************************)
(* Cursor moves and the selection: property of the cursor specification.   *)
(***************************************************************************)
\* the last command was a cursor move that returned
Moved ==
    /\ h.cmd \in {"move_left", "move_right", "move_up", "move_down"}
    /\ h.last = "other"
    /\ ~panicked

\* C18: after a move asked to extend, the anchor is the caret from before the
\* move when there was no anchor and the anchor from before it otherwise;
\* after a move not asked to extend there is no anchor; move_left
\* (move_right) not asked to extend, made while an anchor was set, leaves the
\* caret on the smaller (larger) of anchor and caret from before it.
C18_MoveAndSelection ==
    Moved =>
        /\ h.extend => selection_anchor = IF h.pre.anchor = None
                                          THEN Some(h.pre.caret) ELSE h.pre.anchor
        /\ ~h.extend => selection_anchor = None
        /\ (h.cmd = "move_left" /\ ~h.extend /\ h.pre.anchor /= None)
              => caret = Min(h.pre.anchor[1], h.pre.caret)
        /\ (h.cmd = "move_right" /\ ~h.extend /\ h.pre.anchor /= None)
              => caret = Max(h.pre.anchor[1], h.pre.caret)

\* C18's case: move_left without extend collapsed a selection of more than
\* one char made by extending moves
C18_Witness ==
    /\ Moved /\ h.cmd = "move_left" /\ ~h.extend
    /\ h.pre.anchor /= None
    /\ h.pre.caret > h.pre.anchor[1] + 1
    /\ caret = h.pre.anchor[1]

(***************************************************************************)
(* delete_selection and select_all: property of the editing specification. *)
(***************************************************************************)
\* the last command was delete, backspace or cut with a selection start < end
\* and ran delete_selection to its end
SelectionDeleted ==
    /\ h.last = "edit" /\ h.cmd \in {"delete", "backspace", "cut"}
    /\ h.pre.anchor /= None /\ h.pre.anchor[1] /= h.pre.caret
    /\ ~panicked

SelStart == Min(h.pre.anchor[1], h.pre.caret)
SelEnd == Max(h.pre.anchor[1], h.pre.caret)
\* the chars of the buffer before the command that lie in [SelStart, SelEnd)
SelText ==
    SubSeq(h.pre.rope, ByteToChar(h.pre.rope, SelStart) + 1,
           ByteToChar(h.pre.rope, SelEnd))

\* C19: delete_selection with start < end leaves the buffer without the
\* bytes [start, end), the caret at start and no anchor, hands push_op
\* exactly one op, Delete at start of the removed text, and that op is the
\* last entry of the open undo group; right after select_all the anchor is 0
\* and the caret is the length of the unchanged buffer.
C19_DeleteSelectionAndSelectAll ==
    /\ SelectionDeleted =>
          /\ rope = SubSeq(h.pre.rope, 1, ByteToChar(h.pre.rope, SelStart))
                    \o SubSeq(h.pre.rope, ByteToChar(h.pre.rope, SelEnd) + 1,
                              Len(h.pre.rope))
          /\ caret = SelStart
          /\ selection_anchor = None
          /\ h.rec = << Entry(Delete(SelStart, SelText), h.pre.caret, SelStart) >>
          /\ h.recorded
    /\ (h.cmd = "select_all" /\ h.last = "other") =>
          /\ selection_anchor = Some(0)
          /\ caret = ByteLen(rope)
          /\ rope = h.pre.rope

(***************************************************************************)
(* The current match: property of the find/replace specification.          *)
(***************************************************************************)
\* the last handler ended with update_find_matches, which found matches
Searched == h.find /= None /\ find_matches /= << >>

\* the matches that start at or after the caret update_find_matches saw
AtOrAfterCaret ==
    { k \in 1..Len(find_matches) : find_matches[k][1] >= h.pre_find.caret }

\* C20: after update_find_matches found matches, the current match is the
\* first one that starts at or after the caret of the time of the call, and
\* the match of index 0 when none does.
C20_CurrentMatchPolicy ==
    Searched =>
        /\ current_match_index /= None
        /\ current_match_index[1] + 1 =
               IF AtOrAfterCaret = {} THEN 1
               ELSE CHOOSE k \in AtOrAfterCaret : \A j \in AtOrAfterCaret : k <= j

\* C20's case: a match starts before the caret and the current match is a
\* later one
C20_Witness ==
    /\ Searched
    /\ h.pre_find.caret > 0
    /\ current_match_index /= None /\ current_match_index[1] >= 1
    /\ find_matches[1][1] < h.pre_find.caret

(***************************************************************************)
(* Stepping through the matches: properties of the seek specification.     *)
(***************************************************************************)
\* C21: with n >= 1 matches and the current index i, find_next makes the
\* current index (i + 1) mod n and find_previous makes it (i - 1) mod n, and
\* each leaves the caret at the start of the new current match; n find_next
\* calls in a row come back to the match they started from, and find_previous
\* right after find_next comes back to the match before that find_next.
C21_SeekCycles ==
    (h.seek.cmd \in {"next", "prev"} /\ h.seek.from /= None /\ find_matches /= << >>)
        => /\ current_match_index =
                  Some((h.seek.from[1] + (IF h.seek.cmd = "next" THEN 1
                                          ELSE Len(find_matches) - 1))
                       % Len(find_matches))
           /\ caret = find_matches[current_match_index[1] + 1][1]
           /\ h.seek.run = Len(find_matches) => current_match_index = h.seek.base
           /\ h.seek.undone /= None => current_match_index = h.seek.undone

\* C21's case: among three matches find_next wrapped from the last to the
\* first, and find_previous went back to the last
C21_Witness ==
    /\ h.seek.cmd = "prev"
    /\ Len(find_matches) = 3
    /\ h.seek.undone = Some(2)
    /\ h.seek.from = Some(0)
    /\ current_match_index = Some(2)

(***************************************************************************)
(* Replacing: properties of the replace specification.                     *)
(***************************************************************************)
\* replace_current has just replaced a match
Replaced == h.seek.cmd = "replace_current" /\ ~panicked

\* the match replace_current replaced, in bytes of the buffer before it
ReplacedMatch == h.seek.pre.matches[h.seek.from[1] + 1]

\* the end of the inserted replacement
ReplacementEnd == ReplacedMatch[1] + ByteLen(h.seek.replacement)

\* whether the query stands at byte b of the buffer
StandsAt(query, b) ==
    /\ IsBoundary(rope, b) /\ ~OutOfBounds(rope, b + ByteLen(query))
    /\ IsBoundary(rope, b + ByteLen(query))
    /\ ByteSlice(rope, b, b + ByteLen(query)) = query

\* the matches that start after the end of the inserted replacement
MatchesAfter == { k \in 1..Len(find_matches) : find_matches[k][1] > ReplacementEnd }

C23_ReplaceIsOneUndoUnit ==
    (h.seek.cmd \in {"replace_current_undone", "replace_all_undone"} /\ ~panicked)
        => rope = h.seek.pre.rope

(***************************************************************************)
(* Recording: a property of the editing specification.                     *)
(***************************************************************************)
\* the entries of the last edit command end the open group or the newest
\* group of the undo stack
OpsKept ==
    \/ current_group /= None /\ EndsWith(current_group[1], h.rec)
    \/ undo_stack /= << >> /\ EndsWith(undo_stack[Len(undo_stack)], h.rec)

\* C24: an edit command that changed the buffer has its ops in the open group
\* or in a group of the undo stack, whatever the time since the edit before
\* it and whether or not a group was open; the undo that follows it at once
\* undoes the group that holds these ops.
C24_EveryEditRecorded ==
    /\ (h.last = "edit" /\ ~panicked /\ rope /= h.pre.rope) => OpsKept
    /\ (h.last = "undo" /\ ~panicked /\ h.post.rope /= h.pre.rope)
           => /\ h.recorded
              /\ redo_stack /= << >>
              /\ redo_stack[Len(redo_stack)] = h.post.current_group[1]

(***************************************************************************)
(* Wrapping and the layout cache: properties of the layout specification.  *)
(***************************************************************************)
\* the segments wrap_line returns for logical line l of the buffer at the
\* width of the terminal
LineSegments(l) ==
    wrap_line(Content(RopeLine(rope, l)), viewport_width,
              calculate_indent(RopeLine(rope, l)))

\* C25: wrap_line returns for every line rebuild_visual_lines hands it, at
\* every width and continuation indent: each segment it emits holds at least
\* one character, also when its first character is wider than the available
\* width, and starts no earlier than the one before it ends.
C25_SegmentsAdvance ==
    \A l \in 0..(LenLines(rope) - 1) :
        Content(RopeLine(rope, l)) /= << >>
            => /\ Len(LineSegments(l)) <= Len(Content(RopeLine(rope, l)))
               /\ \A k \in 1..Len(LineSegments(l)) :
                     /\ LineSegments(l)[k][1] < LineSegments(l)[k][2]
                     /\ LineSegments(l)[k][2] <= ByteLen(Content(RopeLine(rope, l)))
                     /\ k > 1 => LineSegments(l)[k - 1][2] <= LineSegments(l)[k][1]

\* C25's case: at width 1 the first row of a line holds one wide character
\* and another row follows it
C25_Witness ==
    /\ LayoutReady /\ word_wrap /\ viewport_width = 1
    /\ \E i \in ContentRows :
          /\ ~visual_lines[i][1].is_continuation
          /\ RowText(i) = << "W" >>
          /\ i + 1 \in ContentRows
          /\ visual_lines[i + 1][1].is_continuation

(***************************************************************************)
(* The layout cache: a property of the cache specification.                *)
(***************************************************************************)
\* C26: whenever visual_lines_valid is true, after edits, undo, redo, a load,
\* a word-wrap toggle, a resize and cursor moves in any order, visual_lines is
\* what rebuild_visual_lines computes from the buffer, word_wrap and the
\* width of the terminal.
C26_CacheIsCurrent ==
    visual_lines_valid
        => visual_lines = rebuild_visual_lines(rope, viewport_width, word_wrap)

\* C26's case: the layout is valid after an edit was undone with word wrap
\* toggled off and the buffer still wider than the terminal
C26_Witness ==
    /\ visual_lines_valid
    /\ ~word_wrap
    /\ h.last = "undo"
    /\ redo_stack /= << >>
    /\ StrWidth(rope) > viewport_width

(***************************************************************************)
(* Cursor moves and the preferred column: properties of the move           *)
(* specification and of the editing specification.                         *)
(***************************************************************************)
\* C27: move_left, move_right, move_up and move_down, asked to extend or
\* not, leave the buffer, the undo stack, the redo stack, the open group and
\* the modified flag as they were and the layout valid; move_up and
\* move_down leave preferred_col as it was.
C27_MovesChangeNoContent ==
    Moved =>
        /\ rope = h.pre.rope
        /\ undo_stack = h.pre.undo_stack
        /\ redo_stack = h.pre.redo_stack
        /\ current_group = h.pre.current_group
        /\ modified = h.pre.modified
        /\ visual_lines_valid
        /\ h.cmd \in {"move_up", "move_down"} => preferred_col = h.col

\* C27's case: after an edit, move_down took the caret to a shorter row and
\* kept a preferred_col that is not the caret's column
C27_Witness ==
    /\ Moved
    /\ h.cmd = "move_down"
    /\ modified /\ current_group /= None
    /\ caret /= h.pre.caret
    /\ preferred_col /= get_visual_position(Cur, caret).col

\* the last command was a horizontal move or one of the edits insert_char,
\* delete, backspace (a selection deleted or a character), paste, indent and
\* dedent, and the frame is laid out
MovedOrEdited ==
    /\ LayoutReady
    /\ \/ h.last = "edit" /\ h.cmd \in {"insert_char", "delete", "backspace",
                                        "paste", "indent", "dedent"}
       \/ h.last = "other" /\ h.cmd \in {"move_left", "move_right"}

\* C28: after every horizontal move and after every edit preferred_col is
\* the display column get_visual_position gives for the new caret.
C28_PreferredColFollowsCaret ==
    MovedOrEdited => preferred_col = get_visual_position(Cur, caret).col

(***************************************************************************)
(* Positions and columns: properties of the layout specification.          *)
(***************************************************************************)
\* the byte offsets of row i that lie on a character boundary
RowOffsets(i) ==
    { p \in visual_lines[i][1].start_byte..visual_lines[i][1].end_byte :
          IsBoundary(rope, p) }

\* row i + 1 is a continuation row that starts where row i ends
ContinuesAt(i) ==
    /\ i + 1 \in ContentRows
    /\ visual_lines[i + 1][1].is_continuation
    /\ visual_lines[i + 1][1].start_byte = visual_lines[i][1].end_byte

\* the column of byte offset p of row i
ColumnIn(i, p) ==
    visual_lines[i][1].indent
    + StrWidth(ByteSlice(rope, visual_lines[i][1].start_byte, p))

\* C29: get_visual_position maps a position inside [start_byte, end_byte) of
\* a row to that row and the row's indent plus the display width of the text
\* from start_byte to the position; it maps the end_byte of a row to the next
\* row and its indent when that row is a continuation starting there, and to
\* the row and its end column otherwise.  Rows count from 0.
C29_VisualPosition ==
    LayoutReady
        => \A i \in ContentRows : \A p \in RowOffsets(i) :
              get_visual_position(Cur, p) =
                  IF p = visual_lines[i][1].end_byte /\ ContinuesAt(i)
                  THEN [panic |-> FALSE, row |-> i,
                        col |-> visual_lines[i + 1][1].indent]
                  ELSE [panic |-> FALSE, row |-> i - 1, col |-> ColumnIn(i, p)]

\* C29's case: an indented continuation row starts where a row of two or
\* more characters ends
C29_Witness ==
    /\ LayoutReady
    /\ \E i \in ContentRows :
          /\ ContinuesAt(i)
          /\ visual_lines[i + 1][1].indent > 0
          /\ Len(RowText(i)) >= 2

\* the columns asked of visual_to_byte: from 0 to past the end of every row
AskedCols == 0..(StrWidth(rope) + Len(rope) + 5)

InnerRows == virtual_lines..(Len(visual_lines) - virtual_lines - 1)

\* the row get_visual_position gives for byte offset p
RowOf(p) == get_visual_position(Cur, p).row

\* C31: for every position in the buffer get_visual_position returns a row
\* between the virtual rows, and that row holds a VisualLine; move_up from the
\* first such row leaves the caret at 0 and move_down from the last one
\* leaves it where it was.
C31_VirtualRowsSkipped ==
    LayoutReady
        => /\ \A p \in 0..ByteLen(rope) :
                 IsBoundary(rope, p)
                     => /\ RowOf(p) \in InnerRows
                        /\ visual_lines[RowOf(p) + 1] /= None
           /\ (Moved /\ h.cmd = "move_up" /\ RowOf(h.pre.caret) = virtual_lines)
                 => caret = 0
           /\ (Moved /\ h.cmd = "move_down"
               /\ RowOf(h.pre.caret) = Len(visual_lines) - virtual_lines - 1)
                 => caret = h.pre.caret

\* C31's case: move_up from the first row took the caret from inside the
\* row to 0, in a buffer of several rows
C31_Witness ==
    /\ LayoutReady /\ Moved
    /\ h.cmd = "move_up"
    /\ RowOf(h.pre.caret) = virtual_lines
    /\ h.pre.caret > 0
    /\ caret = 0
    /\ Len(visual_lines) > 2 * virtual_lines + 1

(***************************************************************************)
(* The shape of visual_lines: a property of the layout specification.      *)
(***************************************************************************)
\* the rows of visual_lines that hold a VisualLine of logical line l
RowsOfLine(l) == {i \in ContentRows : visual_lines[i][1].logical_line = l}

\* the byte offset at which logical line l of the buffer starts
LineStartByte(l) == CharToByte(rope, LineToChar(rope, l))

\* C32: visual_lines is virtual_lines empty rows, then for every logical
\* line, in the order of the buffer, one or more VisualLines, then
\* virtual_lines empty rows; with word wrap off every logical line has one
\* VisualLine, from the start of the line to its end without the newline,
\* and there are len_lines + 2 * virtual_lines rows.
C32_RowsOfRebuild ==
    LayoutReady
        => /\ Len(visual_lines) >= 2 * virtual_lines
           /\ \A i \in 1..Len(visual_lines) :
                 visual_lines[i] = None
                     <=> (i <= virtual_lines \/ i > Len(visual_lines) - virtual_lines)
           /\ \A l \in 0..(LenLines(rope) - 1) : RowsOfLine(l) /= {}
           /\ \A i \in ContentRows :
                 visual_lines[i][1].logical_line \in 0..(LenLines(rope) - 1)
           /\ \A i, j \in ContentRows :
                 i < j => visual_lines[i][1].logical_line <= visual_lines[j][1].logical_line
           /\ ~word_wrap
                 => /\ Len(visual_lines) = LenLines(rope) + 2 * virtual_lines
                    /\ \A l \in 0..(LenLines(rope) - 1) :
                          visual_lines[virtual_lines + l + 1] =
                              Some(VisualLine(LineStartByte(l),
                                              LineStartByte(l)
                                                  + ByteLen(Content(RopeLine(rope, l))),
                                              FALSE, 0, l))

\* C32's case: a buffer of three lines laid out without word wrap, a line
\* longer than the terminal is wide among them
C32_Witness ==
    /\ LayoutReady
    /\ ~word_wrap
    /\ LenLines(rope) = 3
    /\ Len(visual_lines) = 7
    /\ \E i \in ContentRows :
          visual_lines[i][1].end_byte - visual_lines[i][1].start_byte > viewport_width

\* the first row of logical line l
FirstRowOf(l) == CHOOSE i \in RowsOfLine(l) : \A j \in RowsOfLine(l) : i <= j

\* C39: the VisualLines lie inside the buffer, in its order, each starting
\* no earlier than the one before it ends; none holds a newline; every
\* logical line has a first VisualLine that is no continuation and has
\* indent 0, and its other VisualLines are continuations of one indent.
C39_VisualLinesWellFormed ==
    LayoutReady
        => /\ \A i \in ContentRows :
                 /\ visual_lines[i][1].start_byte <= visual_lines[i][1].end_byte
                 /\ visual_lines[i][1].end_byte <= ByteLen(rope)
                 /\ IsBoundary(rope, visual_lines[i][1].start_byte)
                 /\ IsBoundary(rope, visual_lines[i][1].end_byte)
                 /\ \A k \in 1..Len(RowText(i)) : RowText(i)[k] /= "\n"
                 /\ (i + 1) \in ContentRows
                       => /\ visual_lines[i + 1][1].start_byte >= visual_lines[i][1].end_byte
                          /\ visual_lines[i + 1][1].logical_line >= visual_lines[i][1].logical_line
           /\ \A l \in 0..(LenLines(rope) - 1) :
                 /\ RowsOfLine(l) /= {}
                 /\ ~visual_lines[FirstRowOf(l)][1].is_continuation
                 /\ visual_lines[FirstRowOf(l)][1].indent = 0
                 /\ \A i, j \in RowsOfLine(l) \ {FirstRowOf(l)} :
                       /\ visual_lines[i][1].is_continuation
                       /\ visual_lines[i][1].indent = visual_lines[j][1].indent

\* C39's case: an indented logical line wrapped into three rows, after a
\* line before it
C39_Witness ==
    /\ LayoutReady
    /\ \E l \in 1..(LenLines(rope) - 1) :
          /\ Cardinality(RowsOfLine(l)) >= 3
          /\ \E i \in RowsOfLine(l) : visual_lines[i][1].indent > 0

\* visual_to_byte applied to what get_visual_position gives for offset p
RoundTrip(p) ==
    visual_to_byte(Cur, get_visual_position(Cur, p).row, get_visual_position(Cur, p).col)

\* every character of the buffer is one column wide
SingleWidth == \A c \in 1..Len(rope) : rope[c] /= "W"

\* C40: in a buffer of characters one column wide, at a width of at least
\* 1, with word wrap on or off, visual_to_byte gives p back for the row and
\* column get_visual_position gives for any character boundary p.
C40_RoundTrip ==
    (LayoutReady /\ SingleWidth /\ viewport_width >= 1)
        => \A p \in 0..ByteLen(rope) : RoundTrip(p) = p

(***************************************************************************)
(* The specification of indent and dedent on a selection: cursor keys that *)
(* make the selection, then Tab and Shift+Tab.                             *)
(***************************************************************************)
\* the recorded edits and the cursor commands of a run
MaxIndentEdits == 2
MaxIndentMoves == 3

\* a file of three lines: one, five and no leading spaces, a wide char in
\* the first line
IndentRopes == { <<" ", "W", "\n", " ", " ", " ", " ", " ", "b", "\n", "a">> }

\* the terminal widths of the specification
IndentWidths == {8}

InitIndent ==
    \E s \in IndentRopes, width \in IndentWidths :
        InitEditor(s, NameOf(s), width, MaxIndentEdits, MaxIndentMoves)

NextIndent ==
    \/ Draw
    \/ KeyTab
    \/ KeyBackTab
    \/ KeyCtrlA
    \/ KeyLeft
    \/ KeyRight
    \/ KeyDown

SpecIndent == InitIndent /\ [][NextIndent]_vars

\* the last command was indent or dedent, run on a selection that spans
\* two or more lines, and it returned
OnLines(cmd) ==
    /\ h.cmd = cmd
    /\ h.last \in {"edit", "other"}
    /\ ~panicked
    /\ SelLines([rope |-> h.pre.rope, caret |-> h.pre.caret,
                 selection_anchor |-> h.pre.anchor]) >= 2

\* the lines of the selection the last command ran on
PreLines ==
    LineOfByte(h.pre.rope, Min(h.pre.caret, h.pre.anchor[1]))
        .. LineOfByte(h.pre.rope, Max(h.pre.caret, h.pre.anchor[1]))

\* the number of selected lines that start at or before byte offset p
LinesUpTo(p) == Cardinality({l \in PreLines : LineByte(h.pre.rope, l) <= p})

\* the characters of the old buffer, counted from 1, that dedent is to
\* remove: the spaces among the first four characters of a selected line,
\* up to its first other character
Removed ==
    {c \in 1..Len(h.pre.rope) :
        \E l \in PreLines :
           /\ LineToChar(h.pre.rope, l) < c
           /\ c <= LineToChar(h.pre.rope, l) + 4
           /\ \A d \in (LineToChar(h.pre.rope, l) + 1)..c : h.pre.rope[d] = " "}

\* the number of removed characters that lie before byte offset p
RemovedBefore(p) ==
    Cardinality({c \in Removed : CharToByte(h.pre.rope, c - 1) < p})

\* C34: indent on a selection of several lines puts 4 spaces in front of
\* each line from the line of the selection's start to the line of its end
\* and nothing else, and moves caret and anchor by 4 for each of these lines
\* that starts at or before them; dedent removes the spaces among the first
\* 4 characters of each of these lines and nothing else, and moves caret and
\* anchor back by the number of removed characters before them.
C34_IndentDedentSelection ==
    /\ OnLines("indent")
          => /\ Len(rope) = Len(h.pre.rope) + 4 * Cardinality(PreLines)
             /\ \A c \in 1..Len(h.pre.rope) :
                   rope[c + 4 * LinesUpTo(CharToByte(h.pre.rope, c - 1))] = h.pre.rope[c]
             /\ \A l \in PreLines : \A k \in 1..4 :
                   rope[LineToChar(h.pre.rope, l)
                        + 4 * (LinesUpTo(LineByte(h.pre.rope, l)) - 1) + k] = " "
             /\ caret = h.pre.caret + 4 * LinesUpTo(h.pre.caret)
             /\ selection_anchor = Some(h.pre.anchor[1] + 4 * LinesUpTo(h.pre.anchor[1]))
    /\ OnLines("dedent")
          => /\ Len(rope) = Len(h.pre.rope) - Cardinality(Removed)
             /\ \A c \in (1..Len(h.pre.rope)) \ Removed :
                   rope[c - Cardinality({d \in Removed : d < c})] = h.pre.rope[c]
             /\ caret = h.pre.caret - RemovedBefore(h.pre.caret)
             /\ selection_anchor = Some(h.pre.anchor[1] - RemovedBefore(h.pre.anchor[1]))

\* C34's case: dedent ran on a selection of two lines whose caret stood
\* between the spaces it removed, and took 1 and 4 spaces off the lines
C34_Witness ==
    /\ OnLines("dedent")
    /\ Cardinality(Removed) = 5
    /\ \E c \in Removed : CharToByte(h.pre.rope, c - 1) = h.pre.caret
    /\ RemovedBefore(h.pre.caret) \in {2, 3}
    /\ caret = LineByte(rope, LineOfByte(rope, caret))

(***************************************************************************)
(* The specification of typing after the selection was set by a click, by  *)
(* select_all or by an extending move.                                     *)
(***************************************************************************)
\* the recorded edits and the cursor commands of a run
MaxClickEdits == 2
MaxClickMoves == 2

\* the rows and columns of the text area a click can land on
ClickRows == 1..4
ClickCols == 0..2

InitClick ==
    \E s \in InitRopes, width \in EditWidths :
        InitEditor(s, NameOf(s), width, MaxClickEdits, MaxClickMoves)

NextClick ==
    \/ Draw
    \/ \E c \in {"a", "b"} : KeyChar(c)
    \/ \E click_row \in ClickRows, click_col \in ClickCols : MouseDown(click_row, click_col)
    \/ KeyCtrlA
    \/ KeyLeft
    \/ KeyRight

SpecClick == InitClick /\ [][NextClick]_vars

\* the selection range of the snapshot s is empty: no anchor, or the anchor
\* at the caret
EmptyRange(s) == s.anchor = None \/ s.anchor[1] = s.caret

\* the last command was insert_char, called while the selection range was
\* empty
TypedOnEmptyRange ==
    /\ h.last = "edit"
    /\ h.cmd = "insert_char"
    /\ EmptyRange(h.pre)

\* C35: when insert_char is called with an empty selection range and
\* insert_char is called again right after it, the buffer is the buffer
\* from before the two calls with the two characters, one after the other,
\* put in at the caret from before them.
C35_TypingKeepsPreviousChar ==
    [][(/\ TypedOnEmptyRange
        /\ h'.n_edits = h.n_edits + 1
        /\ h'.cmd = "insert_char"
        /\ ~panicked')
          => \E c1, c2 \in {"a", "b"} :
                rope' = RopeInsert(h.pre.rope, ByteToChar(h.pre.rope, h.pre.caret),
                                   << c1, c2 >>)]_vars

(***************************************************************************)
(* The modified flag: a property of the file specification.  h.saved is    *)
(* the text of the last save or load that returned Ok, and before any the  *)
(* buffer the editor started with.                                         *)
(***************************************************************************)
\* C36: whenever modified is false the buffer is the text of the last
\* successful save or load, or the initial buffer when there was none; and
\* when Ctrl+Q made run_app return without the confirm prompt the buffer is
\* that text.
C36_UnmodifiedMeansSaved ==
    /\ (~modified /\ ~panicked) => rope = h.saved
    /\ pc = "returned" => rope = h.saved

(***************************************************************************)
(* Undo and redo move groups: a property of the undo specification.        *)
(***************************************************************************)
\* the undo stack once the open group, if there is one, is closed
ClosedStack ==
    IF current_group /= None /\ current_group[1] /= << >>
    THEN Append(undo_stack, current_group[1])
    ELSE undo_stack

\* buffer, caret, selection and both stacks stay as they are
HistoryUntouched ==
    UNCHANGED << rope, caret, selection_anchor, undo_stack, redo_stack >>

\* what a step of undo does to the stacks
UndoMovesOneGroup ==
    /\ current_group' = None
    /\ IF ClosedStack = << >>
       THEN HistoryUntouched
       ELSE /\ undo_stack' = SubSeq(ClosedStack, 1, Len(ClosedStack) - 1)
            /\ redo_stack' = Append(redo_stack, ClosedStack[Len(ClosedStack)])

\* what a step of redo does to the stacks
RedoMovesOneGroup ==
    IF redo_stack = << >>
    THEN HistoryUntouched /\ current_group' = current_group
    ELSE /\ redo_stack' = SubSeq(redo_stack, 1, Len(redo_stack) - 1)
         /\ undo_stack' = Append(undo_stack, redo_stack[Len(redo_stack)])

\* no group of the undo stack or the redo stack is empty
NoEmptyGroup ==
    /\ \A i \in 1..Len(undo_stack) : undo_stack[i] /= << >>
    /\ \A i \in 1..Len(redo_stack) : redo_stack[i] /= << >>

\* C37: undo closes the open group and then moves the top group of the undo
\* stack to the redo stack, or changes nothing when there is none; redo
\* moves the top group of the redo stack to the undo stack, or changes
\* nothing when there is none; no group on either stack is ever empty.
C37_UndoRedoMoveOneGroup ==
    /\ []NoEmptyGroup
    /\ [][/\ (KeyCtrlZ /\ ~panicked') => UndoMovesOneGroup
          /\ (KeyCtrlY /\ ~panicked') => RedoMovesOneGroup]_vars

\* C37's case: undo closed the group the last edit had left open and moved
\* it to the redo stack, above a group that stayed on the undo stack
C37_Witness ==
    /\ h.last = "undo"
    /\ h.post.current_group /= None
    /\ current_group = None
    /\ redo_stack = << h.post.current_group[1] >>
    /\ undo_stack /= << >>

(***************************************************************************)
(* The specification of the find/replace bar in use: a query typed or      *)
(* pasted, a match replaced, the buffer edited while it has the focus of   *)
(* the bar, undo.                                                          *)
(***************************************************************************)
\* how many commands that record edits one behaviour holds
MaxBarEdits == 1

\* the longest query and the longest replacement of the bar
MaxBarQueryLen == 2
MaxBarTextLen == 1

BarRopes == { <<"a", "b", "a">> }

\* the texts the clipboard of the prompt can hold
BarClips == { <<"b">> }

\* whether one more piece of text of length n fits the focused field
BarHasRoom(n) ==
    /\ Len(app_state.prompt.input) + (IF ActiveField = "Find" THEN n ELSE 0)
           <= MaxBarQueryLen
    /\ Len(app_state.prompt.replace_input) + (IF ActiveField = "Replace" THEN n ELSE 0)
           <= MaxBarTextLen

\* a char typed into the bar while it fits
BarChar(ch) == BarHasRoom(1) /\ PromptChar(ch)

\* the clipboard pasted into the bar while it fits; reading it succeeds or fails
BarPaste ==
    \E got \in {None} \cup {Some(text) : text \in BarClips} :
        BarHasRoom(IF got = None THEN 0 ELSE Len(got[1])) /\ PromptPaste(got)

InitBar ==
    \E s \in BarRopes, width \in FindWidths : InitEditor(s, NameOf(s), width, MaxBarEdits, 0)

NextBar ==
    \/ Draw
    \/ KeyCtrlF
    \/ \E ch \in FindChars : BarChar(ch)
    \/ BarPaste
    \/ PromptBackspace
    \/ PromptTab
    \/ PromptEnter
    \/ \E c \in TypeChars : BufferChar(c)
    \/ ReplaceCurrent
    \/ PromptUndo

SpecBar == InitBar /\ [][NextBar]_vars

\* the text of the Find field
FindText == app_state.prompt.input

\* C33: while the find/replace bar is open, find_matches lists, in order,
\* the places of the buffer where the text of the Find field stands, and
\* nothing when that text is empty; and what replace_current replaced was an
\* occurrence of the text the Find field held then.
C33_MatchesFollowFindText ==
    /\ InPrompt
          => /\ \A k \in 1..Len(find_matches) :
                   /\ FindText /= << >>
                   /\ StandsAt(FindText, find_matches[k][1])
                   /\ find_matches[k][2] = find_matches[k][1] + ByteLen(FindText)
                   /\ k > 1 => find_matches[k - 1][1] < find_matches[k][1]
             /\ FindText /= << >>
                   => \A b \in 0..ByteLen(rope) :
                         StandsAt(FindText, b)
                             => \E k \in 1..Len(find_matches) : find_matches[k][1] = b
    /\ Replaced
          => ByteSlice(h.seek.pre.rope, ReplacedMatch[1], ReplacedMatch[2]) = h.seek.query

(***************************************************************************)
(* The specification of the match list: the six commands that write        *)
(* find_matches and current_match_index, run from the find/replace bar.    *)
(***************************************************************************)
InitMatch ==
    \E s \in BarRopes, width \in FindWidths : InitEditor(s, NameOf(s), width, MaxBarEdits, 0)

NextMatch ==
    \/ Draw
    \/ KeyCtrlF
    \/ \E ch \in FindChars : BarChar(ch)
    \/ PromptBackspace
    \/ PromptTab
    \/ PromptEsc
    \/ FindNext
    \/ FindPrevious
    \/ ReplaceCurrent
    \/ ReplaceAllCall
    \/ ReplaceAllTurn
    \/ ReplaceAllReturn

SpecMatch == InitMatch /\ [][NextMatch]_vars

\* C38: current_match_index is None exactly when find_matches is empty, and
\* otherwise it is the index of one of the matches.
C38_IndexWithinMatches ==
    /\ current_match_index = None <=> find_matches = << >>
    /\ current_match_index /= None
          => current_match_index[1] \in 0..(Len(find_matches) - 1)

\* C38's case: replace_current has replaced a match and left the second of
\* two or more matches current
C38_Witness ==
    /\ Replaced
    /\ Len(find_matches) >= 2
    /\ current_match_index = Some(1)

====
